---- MODULE Spec2Model ----
(***************************************************************************)
(* Verification model of nilx/retinex_pde.                                 *)
(*                                                                         *)
(* Modelled code:                                                          *)
(*   src/retinex_pde_lib.c                                                 *)
(*       discrete_laplacian_threshold, cos_table, retinex_poisson_dct,     *)
(*       retinex_pde                                                       *)
(*   src/lmps_retinex_poisson_equation/src/normalize_histo_lib.c           *)
(*       minmax_f32, minmax_histo_f32, normalize_histo_f32                 *)
(*   src/retinex_pde.c                                                     *)
(*       main                                                              *)
(*   src/norm_mean_dt.c                                                    *)
(*       mean_dt, norm_dt                                                  *)
(*   src/lmps_retinex_poisson_equation/src/retinex_pde_lib.c,              *)
(*   src/lmps_retinex_poisson_equation/src/retinex_pde.c                   *)
(*       retinex_poisson_dct (the variants with static tables)             *)
(*   src/lmps_retinex_poisson_equation/src/algo_retinex_pde.c              *)
(*       mw4_retinex_update_dft, mw4_retinex_pde                           *)
(*                                                                         *)
(* Arrays are functions over 0 .. n-1, indexed as the C code indexes them  *)
(* (row-major, linear position j * nx + i).                                *)
(*                                                                         *)
(* Numbers are exact.  The samples of the images and channels, the         *)
(* thresholds, the targets and the double m are rationals <<num, den>>;    *)
(* the cosines and the spectral coefficients of the solver are numbers of  *)
(* Q(sqrt 2, sqrt 3); the doubles of norm_dt are rationals extended by one *)
(* square root.  The rounding of a float or double operation is modelled   *)
(* where the code's result depends on it: in (0.015 * nx * ny) of main, in *)
(* the squares of mean_dt and the samples norm_dt stores (the nearest      *)
(* float of the exact value), in the float s_m of the cached variants, in  *)
(* the cosines next to 1.0 of cos_table.                                   *)
(***************************************************************************)
EXTENDS Integers, Sequences, FiniteSets, TLC

VARIABLES
    pc,         \* position of the modelled call
    nx,         \* array width  (size_t nx)
    ny,         \* array height (size_t ny)
    t,          \* retinex threshold (float t)
    data,       \* the caller's channel (float *data)
    data_tmp,   \* laplacian buffer (float *data_tmp)
    data_fft,   \* spectral buffer (float *data_fft)
    m,          \* retinex_poisson_dct: double m, a rational <<num, den>>
    data_entry, \* the content of *data when the modelled call was entered
    size,           \* normalize_histo_f32: size_t size
    target_min,     \* normalize_histo_f32: float target_min
    target_max,     \* normalize_histo_f32: float target_max
    flat_nb_min,    \* normalize_histo_f32: size_t flat_nb_min, as passed
    flat_nb_max,    \* normalize_histo_f32: size_t flat_nb_max, as passed
    nb_min,         \* the low count in effect after the sanity check
    nb_max,         \* the high count in effect after the sanity check
    min,            \* the computed minimum (float min, *ptr_min)
    max,            \* the computed maximum (float max, *ptr_max)
    stderr,         \* the lines written to stderr
    main_pc,        \* main: where main is while a function it called runs
    nc,             \* main: number of channels of the decoded image
    channel,        \* main: the loop counter
    decoded,        \* main: the image as read_png_f32 returned it
    main_data,      \* main: float *data, the image that is normalised
    data_rtnx,      \* main: float *data_rtnx, the image that is solved
    norm_png,       \* the image handed to write_png_f32(argv[3], ...)
    rtnx_png,       \* the image handed to write_png_f32(argv[4], ...)
    exit_status,    \* how the process ended
    ref,            \* norm_dt: const float *ref
    prev_cosx,      \* the table cosx the previous call of retinex_pde built
    prev_cosy,      \* the table cosy the previous call of retinex_pde built
    events,         \* retinex_pde: the allocations, uses and releases of the
                    \* current call, in the order of the code
    histo_allocated,\* the histograms allocated and not released
    freq,           \* the linear index of a spectral coefficient
    coef_divisor,   \* the divisor of that coefficient, sign and zero test only
    variant,        \* the cached Poisson step that is called: "lib" is
                    \* retinex_poisson_dct of lmps/retinex_pde_lib.c, "pde"
                    \* that of lmps/retinex_pde.c, "mw4" mw4_retinex_update_dft
    u_arg,          \* its argument u (mw4 only)
    s_nx, s_ny,     \* its static variables
    s_m, s_u,
    s_coef,         \* s_coef, or s_factor in mw4_retinex_update_dft
    s_cosi, s_cosj,
    recomputed,     \* the call entered the recomputation block
    last_call,      \* the arguments of the preceding call
    thread_pc,      \* OpenMP: the position of each thread in mw4_retinex_pde
    thread_args,    \* the arguments <<nx, ny, u>> of each thread
    critical,       \* the thread inside a critical section, 0 when none is
    s_factor,       \* OpenMP: the shared table s_factor, <<>> while it is
                    \* freed and refilled
    thread_factor   \* what each thread read from s_factor in its
                    \* multiplication loop

solverVars == <<nx, ny, t, data_tmp, data_fft, m>>

normVars == <<size, target_min, target_max, flat_nb_min, flat_nb_max,
              nb_min, nb_max, min, max, stderr>>

mainVars == <<main_pc, nc, channel, decoded, main_data, data_rtnx, norm_png, rtnx_png,
              exit_status>>

\* the variables of the parts modelled apart from the pipeline
divisorVars == <<freq, coef_divisor>>
cacheVars == <<variant, u_arg, s_nx, s_ny, s_m, s_u, s_coef, s_cosi, s_cosj,
               recomputed, last_call>>
ompVars == <<thread_pc, thread_args, critical, s_factor, thread_factor>>
extVars == <<divisorVars, cacheVars, ompVars>>

vars == <<pc, data, data_entry, solverVars, normVars, mainVars, ref,
          prev_cosx, prev_cosy, events, histo_allocated, extVars>>

\* no divisor of retinex_poisson_dct is followed
DivisorIdle ==
    /\ freq = 0
    /\ coef_divisor = 0

\* static float s_m = 0.; static size_t s_nx = 0, s_ny = 0;
\* static double *s_coef = NULL, *s_cosi = NULL, *s_cosj = NULL;
StaticsInitial ==
    /\ s_nx = 0
    /\ s_ny = 0
    /\ s_m = <<0, 1>>
    /\ s_u = <<0, 1>>
    /\ s_coef = <<>>
    /\ s_cosi = <<>>
    /\ s_cosj = <<>>

\* no cached Poisson step was called: its static variables have their
\* initial values
CacheIdle ==
    /\ variant = "lib"
    /\ u_arg = <<0, 1>>
    /\ StaticsInitial
    /\ recomputed = FALSE
    /\ last_call = <<>>

\* no thread runs mw4_retinex_pde
OmpIdle ==
    /\ thread_pc = <<>>
    /\ thread_args = <<>>
    /\ critical = 0
    /\ s_factor = <<>>
    /\ thread_factor = <<>>

\* the parts modelled apart from the pipeline are not part of the call
ExtIdle == DivisorIdle /\ CacheIdle /\ OmpIdle

(***************************************************************************)
(* Exact arithmetic.                                                       *)
(*                                                                         *)
(* A float or double that holds a rational value is the pair <<num, den>>  *)
(* in lowest terms with den > 0.  The cosines of the transforms and the    *)
(* spectral coefficients are numbers of Q(sqrt 2, sqrt 3): the tuple       *)
(* <<a, b, c, e, d>> is (a + b sqrt 2 + c sqrt 3 + e sqrt 6) / d in lowest *)
(* terms with d > 0.                                                       *)
(***************************************************************************)
Abs(n) == IF n < 0 THEN -n ELSE n

RECURSIVE Gcd(_, _)
Gcd(a, b) == IF b = 0 THEN a ELSE Gcd(b, a % b)

\* the rational n / d (d # 0) in lowest terms with a positive denominator
Rat(n, d) ==
    LET g == Gcd(Abs(n), Abs(d))
        sgn == IF d < 0 THEN -1 ELSE 1
    IN  <<(sgn * n) \div g, Abs(d) \div g>>

RInt(n) == <<n, 1>>
RAdd(a, b) == Rat(a[1] * b[2] + b[1] * a[2], a[2] * b[2])
RSub(a, b) == Rat(a[1] * b[2] - b[1] * a[2], a[2] * b[2])
RMul(a, b) == Rat(a[1] * b[1], a[2] * b[2])
RDiv(a, b) == Rat(a[1] * b[2], a[2] * b[1])
RLt(a, b) == a[1] * b[2] < b[1] * a[2]
RLe(a, b) == a[1] * b[2] <= b[1] * a[2]

\* (int) x: the conversion truncates toward zero
IntCast(a) == IF a[1] < 0 THEN -((-a[1]) \div a[2]) ELSE a[1] \div a[2]

RECURSIVE RSumTo(_, _)
\* f[0] + ... + f[n - 1]
RSumTo(f, n) == IF n = 0 THEN RInt(0) ELSE RAdd(RSumTo(f, n - 1), f[n - 1])

\* (a + b sqrt 2 + c sqrt 3 + e sqrt 6) / d (d # 0) in lowest terms with a
\* positive denominator
SNorm(a, b, c, e, d) ==
    LET g == Gcd(Gcd(Gcd(Gcd(Abs(d), Abs(a)), Abs(b)), Abs(c)), Abs(e))
        sgn == IF d < 0 THEN -1 ELSE 1
    IN  <<(sgn * a) \div g, (sgn * b) \div g, (sgn * c) \div g,
          (sgn * e) \div g, Abs(d) \div g>>

\* the rational x, and the integer n, as numbers of Q(sqrt 2, sqrt 3)
Surd(x) == <<x[1], 0, 0, 0, x[2]>>
SInt(n) == <<n, 0, 0, 0, 1>>

SAdd(x, y) ==
    SNorm(x[1] * y[5] + y[1] * x[5], x[2] * y[5] + y[2] * x[5],
          x[3] * y[5] + y[3] * x[5], x[4] * y[5] + y[4] * x[5], x[5] * y[5])

SNeg(x) == <<-x[1], -x[2], -x[3], -x[4], x[5]>>

SSub(x, y) == SAdd(x, SNeg(y))

SMul(x, y) ==
    SNorm(x[1] * y[1] + 2 * x[2] * y[2] + 3 * x[3] * y[3] + 6 * x[4] * y[4],
          x[1] * y[2] + x[2] * y[1] + 3 * (x[3] * y[4] + x[4] * y[3]),
          x[1] * y[3] + x[3] * y[1] + 2 * (x[2] * y[4] + x[4] * y[2]),
          x[1] * y[4] + x[4] * y[1] + x[2] * y[3] + x[3] * y[2],
          x[5] * y[5])

\* the conjugates of x: sqrt 3 replaced by -sqrt 3, sqrt 2 by -sqrt 2
SConj3(x) == <<x[1], x[2], -x[3], -x[4], x[5]>>
SConj2(x) == <<x[1], -x[2], x[3], -x[4], x[5]>>

\* 1 / x for x # 0: x * SConj3(x) lies in Q(sqrt 2), and that number times
\* its SConj2 is rational
SInv(x) ==
    LET n3 == SMul(x, SConj3(x))
        n2 == SMul(n3, SConj2(n3))
    IN  SMul(SMul(SConj3(x), SConj2(n3)), SNorm(n2[5], 0, 0, 0, n2[1]))

SDiv(x, y) == SMul(x, SInv(y))

RECURSIVE SSumTo(_, _)
\* f[0] + ... + f[n - 1]
SSumTo(f, n) == IF n = 0 THEN SInt(0) ELSE SAdd(SSumTo(f, n - 1), f[n - 1])

\* the floats of the array A as they enter a transform
Surds(A) == [p \in DOMAIN A |-> Surd(A[p])]

\* the float a transform stores for the value x: x itself when it is
\* rational, and x to six decimals otherwise
StoredFloat(x) ==
    IF x[2] = 0 /\ x[3] = 0 /\ x[4] = 0 THEN Rat(x[1], x[5])
    ELSE Rat(x[1] * 1000000 + x[2] * 1414214 + x[3] * 1732051
                 + x[4] * 2449490,
             x[5] * 1000000)

\* the float array a transform stores for the values S
Floats(S) == [p \in DOMAIN S |-> StoredFloat(S[p])]

(***************************************************************************)
(* Bounds of the model.                                                    *)
(***************************************************************************)
\* largest width and height, and largest number of cells nx * ny, of a
\* channel given to the laplacian
MaxSide == 3
MaxCells == 9

\* sample values and thresholds the laplacian is exercised with: 0.0, 1.0, 2.0
Levels == {RInt(0), RInt(1), RInt(2)}
Thresholds == {RInt(0), RInt(1), RInt(2)}

\* value of a buffer that is not allocated (or whose content is not used)
NoBuf == <<>>

\* value of a local that was not assigned
Unset == "unset"

\* main and norm_dt are not part of the modelled call, which is the first
\* call of the process
MainIdle ==
    /\ main_pc = "none"
    /\ nc = 1
    /\ channel = 0
    /\ decoded = NoBuf
    /\ main_data = NoBuf
    /\ data_rtnx = NoBuf
    /\ norm_png = Unset
    /\ rtnx_png = Unset
    /\ exit_status = Unset
    /\ ref = NoBuf
    /\ prev_cosx = NoBuf
    /\ prev_cosy = NoBuf
    /\ events = <<>>
    /\ histo_allocated = 0
    /\ ExtIdle

\* the normaliser is not part of the modelled call
NormIdle ==
    /\ size = 0
    /\ target_min = Unset
    /\ target_max = Unset
    /\ flat_nb_min = 0
    /\ flat_nb_max = 0
    /\ nb_min = 0
    /\ nb_max = 0
    /\ min = Unset
    /\ max = Unset
    /\ stderr = <<>>

\* no buffer of retinex_pde, of main or of norm_dt is part of the modelled
\* call
PipelineIdle ==
    /\ t = RInt(0)
    /\ data = NoBuf
    /\ data_tmp = NoBuf
    /\ data_fft = NoBuf
    /\ data_entry = NoBuf
    /\ NormIdle
    /\ main_pc = "none"
    /\ nc = 1
    /\ channel = 0
    /\ decoded = NoBuf
    /\ main_data = NoBuf
    /\ data_rtnx = NoBuf
    /\ norm_png = Unset
    /\ rtnx_png = Unset
    /\ exit_status = Unset
    /\ ref = NoBuf
    /\ prev_cosx = NoBuf
    /\ prev_cosy = NoBuf
    /\ events = <<>>
    /\ histo_allocated = 0

(***************************************************************************)
(* Generic helpers.                                                        *)
(***************************************************************************)
Cells(w, h) == 0 .. (w * h - 1)

Shapes(maxSide, maxCells) ==
    {s \in (1 .. maxSide) \X (1 .. maxSide) : s[1] * s[2] <= maxCells}

RECURSIVE RSumOver(_, _)
\* sum of the values of f over the finite set S of its arguments
RSumOver(f, S) ==
    IF S = {} THEN RInt(0)
    ELSE LET x == CHOOSE y \in S : TRUE IN RAdd(f[x], RSumOver(f, S \ {x}))

(***************************************************************************)
(* discrete_laplacian_threshold (src/retinex_pde_lib.c:80-149)             *)
(***************************************************************************)
\* fabs()
Fabs(x) == IF x[1] < 0 THEN <<-x[1], x[2]>> ELSE x

\* the mutants of ThresholdedDiff: ">=" for ">", and a forgotten fabs()
ThresholdedDiffGe(center, neighbour, thr) ==
    LET diff == RSub(center, neighbour)
    IN  IF RLe(thr, Fabs(diff)) THEN diff ELSE RInt(0)

ThresholdedDiffNoFabs(center, neighbour, thr) ==
    LET diff == RSub(center, neighbour)
    IN  IF RLt(thr, diff) THEN diff ELSE RInt(0)

\* diff = *ptr_in - *ptr_in_XXX; if (fabs(diff) > t) *ptr_out += diff;
\* the value the statement adds to *ptr_out
ThresholdedDiff(center, neighbour, thr) ==
    LET diff == RSub(center, neighbour)
    IN  IF RLt(thr, Fabs(diff)) THEN diff ELSE RInt(0)

\* the mutant of CellReset: the accumulator starts from the input cell
CellResetStale(data_in, p) == data_in[p]

\* *ptr_out = 0.;
CellReset(data_in, p) == RInt(0)

\* One iteration of the loop body, at column i of row j.  All five pointers
\* advance together, so at this iteration ptr_in is data_in + p with
\* p = j * nx + i, ptr_in_xm1 is data_in + p - 1, ptr_in_xp1 is
\* data_in + p + 1, ptr_in_ym1 is data_in + p - nx and ptr_in_yp1 is
\* data_in + p + nx.
LaplacianCell(data_in, w, h, thr, i, j) ==
    LET p == j * w + i
        xm1 == IF 0 < i
               THEN ThresholdedDiff(data_in[p], data_in[p - 1], thr)
               ELSE RInt(0)
        xp1 == IF w - 1 > i
               THEN ThresholdedDiff(data_in[p], data_in[p + 1], thr)
               ELSE RInt(0)
        ym1 == IF 0 < j
               THEN ThresholdedDiff(data_in[p], data_in[p - w], thr)
               ELSE RInt(0)
        yp1 == IF h - 1 > j
               THEN ThresholdedDiff(data_in[p], data_in[p + w], thr)
               ELSE RInt(0)
    IN  RAdd(RAdd(RAdd(RAdd(CellReset(data_in, p), xm1), xp1), ym1), yp1)

\* the whole function: the returned data_out
discrete_laplacian_threshold(data_in, w, h, thr) ==
    [p \in Cells(w, h) |-> LaplacianCell(data_in, w, h, thr, p % w, p \div w)]

(***************************************************************************)
(* Specification SpecLaplacian: discrete_laplacian_threshold applied to    *)
(* every channel within the bounds.                                        *)
(***************************************************************************)
InitLaplacian ==
    /\ pc = "laplacian_call"
    /\ \E s \in Shapes(MaxSide, MaxCells) :
          /\ nx = s[1]
          /\ ny = s[2]
          /\ data \in [Cells(s[1], s[2]) -> Levels]
    /\ t \in Thresholds
    /\ data_tmp = NoBuf
    /\ data_fft = NoBuf
    /\ m = <<1, nx * ny>>
    /\ data_entry = data
    /\ NormIdle
    /\ MainIdle

\* (void) discrete_laplacian_threshold(data_tmp, data, nx, ny, t);
\* the allocations, uses and releases of one step, in the order of the code,
\* each a pair <<operation, resource>>
\* data_tmp = malloc(...); discrete_laplacian_threshold(data_tmp, data, ...)
LaplacianEvents == <<<<"alloc", "data_tmp">>, <<"use", "data_tmp">>>>

Laplacian ==
    /\ pc = "laplacian_call"
    /\ DOMAIN data # {}
    /\ data_tmp' = discrete_laplacian_threshold(data, nx, ny, t)
    /\ events' = events \o LaplacianEvents
    /\ pc' = "laplacian_done"
    /\ UNCHANGED <<nx, ny, t, data, data_fft, m, data_entry, normVars,
                   mainVars, ref, prev_cosx, prev_cosy,
                   histo_allocated, extVars>>

NextLaplacian == Laplacian

SpecLaplacian == InitLaplacian /\ [][NextLaplacian]_vars

(***************************************************************************)
(* libm cos() at the angles the solver uses.                               *)
(***************************************************************************)
\* cos(k Pi / 12) for k in 0 .. 6
CosTwelfths(k) ==
    CASE k = 0 -> <<1, 0, 0, 0, 1>>
      [] k = 1 -> <<0, 1, 0, 1, 4>>
      [] k = 2 -> <<0, 0, 1, 0, 2>>
      [] k = 3 -> <<0, 1, 0, 0, 2>>
      [] k = 4 -> <<1, 0, 0, 0, 2>>
      [] k = 5 -> <<0, -1, 0, 1, 4>>
      [] k = 6 -> <<0, 0, 0, 0, 1>>

\* cos() at the angle Pi * p / q, for p >= 0 and q a divisor of 12 (the
\* tables of 1, 2 and 3 entries and the transforms of 1, 2 and 3 values use
\* q in {1, 2, 3, 4, 6})
Cos(p, q) ==
    LET k0 == (p % (2 * q)) * (12 \div q)
        k == IF k0 > 12 THEN 24 - k0 ELSE k0
    IN  CASE 12 % q = 0 /\ k > 6 -> SNeg(CosTwelfths(12 - k))
          [] 12 % q = 0 /\ k <= 6 -> CosTwelfths(k)

(***************************************************************************)
(* cos_table (src/retinex_pde_lib.c:160-181)                               *)
(***************************************************************************)
\* pi_size = M_PI / size; table[i] = cos(pi_size * i) for i in [0..size[
cos_table(table_size) ==
    [i \in 0 .. (table_size - 1) |-> Cos(i, table_size)]

(***************************************************************************)
(* Claims on discrete_laplacian_threshold.                                 *)
(***************************************************************************)
IsConstant(f, n) == \A p \in 0 .. (n - 1) : f[p] = f[0]

\* C1: for every nx >= 1, ny >= 1 and t >= 0, the laplacian of a channel
\* whose cells all hold the same value is 0 in every cell.
C1_ConstantGivesZero ==
    (pc = "laplacian_done" /\ IsConstant(data, nx * ny))
        => \A p \in Cells(nx, ny) : data_tmp[p] = RInt(0)

\* C1 witness: a constant nonzero 3 x 3 channel went through the laplacian
\* with a positive threshold.
C1_Witness ==
    /\ pc = "laplacian_done"
    /\ nx = 3 /\ ny = 3 /\ RLt(RInt(0), t)
    /\ IsConstant(data, nx * ny) /\ RLt(RInt(0), data[0])

\* the grid view of the claim: cell (i, j), its four neighbours, those that
\* lie inside the grid, and the value of F at a grid position
GridNeighbours(i, j) ==
    {<<i - 1, j>>, <<i + 1, j>>, <<i, j - 1>>, <<i, j + 1>>}

InGrid(c, w, h) == c[1] \in 0 .. (w - 1) /\ c[2] \in 0 .. (h - 1)

GridValue(F, w, c) == F[c[2] * w + c[1]]

\* sum over the in-grid neighbours of d = F[i,j] - F[neighbour], counted
\* only if |d| > t
GridLaplacian(F, w, h, thr, i, j) ==
    LET inside == {c \in GridNeighbours(i, j) : InGrid(c, w, h)}
        d == [c \in inside |->
                 RSub(GridValue(F, w, <<i, j>>), GridValue(F, w, c))]
        kept == [c \in inside |->
                    IF RLt(thr, d[c]) \/ RLt(thr, RSub(RInt(0), d[c]))
                    THEN d[c] ELSE RInt(0)]
    IN  RSumOver(kept, inside)

\* C2: every cell (i, j) of the output holds the sum, over the neighbours
\* that lie inside the grid, of the differences whose absolute value is
\* strictly above t; cells outside the grid (the memory neighbours across a
\* row end included) contribute nothing.
C2_StencilFormula ==
    pc = "laplacian_done"
        => \A i \in 0 .. (nx - 1), j \in 0 .. (ny - 1) :
              data_tmp[j * nx + i] = GridLaplacian(data, nx, ny, t, i, j)

\* C2 witness: a 3 x 3 channel whose centre has one neighbour at distance
\* exactly t > 0 (dropped) and one at a larger distance (kept), and whose
\* row 2 starts with a cell that differs from the last cell of row 1 by
\* more than t (the memory neighbour a wrap would use).
C2_Witness ==
    /\ pc = "laplacian_done"
    /\ nx = 3 /\ ny = 3 /\ RLt(RInt(0), t)
    /\ Fabs(RSub(data[4], data[3])) = t
    /\ RLt(t, Fabs(RSub(data[4], data[5])))
    /\ RLt(t, Fabs(RSub(data[6], data[5])))
    /\ data_tmp[4] # RInt(0)

\* C3: the cells of the laplacian sum to zero.
C3_ZeroSum ==
    pc = "laplacian_done" => RSumTo(data_tmp, nx * ny) = RInt(0)

\* C3 witness: a laplacian with nonzero cells, some differences dropped by
\* the threshold and some kept.
C3_Witness ==
    /\ pc = "laplacian_done"
    /\ nx >= 2 /\ ny >= 2 /\ RLt(RInt(0), t)
    /\ \E p \in Cells(nx, ny) : RLt(RInt(0), data_tmp[p])
    /\ \E p \in Cells(nx, ny) : Fabs(RSub(data[p], data[0])) = t

(***************************************************************************)
(* retinex_poisson_dct (src/retinex_pde_lib.c:203-245)                     *)
(***************************************************************************)
\* the mutant of PoissonM2: the halving is forgotten
PoissonM2Whole(mm) == mm

\* m2 = m / 2.;
PoissonM2(mm) == RDiv(mm, RInt(2))

\* i % nx, the index into cosx
PoissonColumn(i, w) == i % w

\* i / nx, the index into cosy
PoissonRow(i, w) == i \div w

\* (2. - cosx[i % nx] - cosy[i / nx])
PoissonDivisor(cosx, cosy, i, w) ==
    SSub(SSub(SInt(2), cosx[PoissonColumn(i, w)]), cosy[PoissonRow(i, w)])

\* data[i] *= m2 / divisor.  With a zero divisor the quotient m2 / 0. is
\* infinite and the product is infinite or, for data[i] = 0, not a number.
PoissonScaled(v, m2, divisor) ==
    IF divisor = SInt(0) THEN (IF v = SInt(0) THEN "nan" ELSE "inf")
    ELSE SMul(v, SDiv(Surd(m2), divisor))

\* data[0] = 0.; for (i = 1; i < nx * ny; i++) data[i] *= m2 / (...);
PoissonUpdate(d, w, h, mm, cosx, cosy) ==
    LET m2 == PoissonM2(mm)
    IN  [i \in Cells(w, h) |->
            IF i = 0 THEN SInt(0)
            ELSE PoissonScaled(d[i], m2, PoissonDivisor(cosx, cosy, i, w))]

\* the whole function: the updated data array
retinex_poisson_dct(d, w, h, mm) ==
    PoissonUpdate(d, w, h, mm, cos_table(w), cos_table(h))

\* the entries of the table a previous call built are kept, only the
\* missing ones are computed
PoissonTableKept(previous, table_size) ==
    [i \in 0 .. (table_size - 1) |->
        IF i \in DOMAIN previous THEN previous[i] ELSE Cos(i, table_size)]

\* double *cosx = NULL, *cosy = NULL; cosx = cos_table(nx); cosy = ...:
\* the table a call uses is built by that call, whatever table a previous
\* call built (and freed)
PoissonTable(previous, table_size) == cos_table(table_size)

\* the process is killed by abort() after the lines msgs went to stderr;
\* allocated lists what the call allocated since its last modelled step,
\* which nothing releases
AbortHolding(msgs, allocated) ==
    /\ stderr' = stderr \o msgs
    /\ exit_status' = "SIGABRT"
    /\ pc' = "aborted"
    /\ events' = events \o allocated
    /\ UNCHANGED <<data, data_entry, solverVars, size, target_min, target_max,
                   flat_nb_min, flat_nb_max, nb_min, nb_max, min, max,
                   main_pc, nc, channel, decoded, main_data, data_rtnx,
                   norm_png, rtnx_png, ref, prev_cosx, prev_cosy,
                   histo_allocated, extVars>>

\* the same when the failing statement is the first one since the last step
AbortAfter(msgs) == AbortHolding(msgs, <<>>)

\* fprintf(stderr, msg "\n"); abort();
Abort(msg) == AbortAfter(<<msg>>)

(***************************************************************************)
(* Specification SpecPoisson: retinex_poisson_dct applied to every         *)
(* coefficient array within the bounds.                                    *)
(***************************************************************************)
\* coefficient values: -1.5, 0.0, 2.0
CoefLevels == {Surd(<<-3, 2>>), SInt(0), SInt(2)}

InitPoisson ==
    /\ pc = "poisson_call"
    /\ \E s \in Shapes(MaxSide, MaxCells) :
          /\ nx = s[1]
          /\ ny = s[2]
          /\ data_fft \in [Cells(s[1], s[2]) -> CoefLevels]
          /\ m \in {<<1, s[1] * s[2]>>, <<1, 1>>}
    /\ t = RInt(0)
    /\ data = NoBuf
    /\ data_tmp = NoBuf
    /\ data_entry = NoBuf
    /\ NormIdle
    /\ MainIdle

\* cosx = cos_table(nx); cosy = cos_table(ny); the loop over data[i],
\* cosx[i % nx] and cosy[i / nx]; free(cosx); free(cosy);
PoissonEvents ==
    <<<<"alloc", "cosx">>, <<"alloc", "cosy">>, <<"use", "data_fft">>,
      <<"use", "cosx">>, <<"use", "cosy">>, <<"release", "cosx">>,
      <<"release", "cosy">>>>

\* (void) retinex_poisson_dct(data_fft, nx, ny, m);
Poisson ==
    /\ pc = "poisson_call"
    /\ data_fft' = PoissonUpdate(data_fft, nx, ny, m,
                                 PoissonTable(prev_cosx, nx),
                                 PoissonTable(prev_cosy, ny))
    /\ events' = events \o PoissonEvents
    /\ pc' = "poisson_done"
    /\ UNCHANGED <<nx, ny, t, data, data_tmp, m, data_entry, normVars,
                   mainVars, ref, prev_cosx, prev_cosy,
                   histo_allocated, extVars>>

\* cosx = cos_table(nx); cosy = cos_table(ny); the malloc of one of the two
\* calls fails: what retinex_poisson_dct allocated then, nothing when it is
\* the first call, cosx when it is the second
CosTablesBuilt(failed) ==
    IF failed = "cosx" THEN <<>> ELSE <<<<"alloc", "cosx">>>>

\* cos_table: if (NULL == (table = (double *) malloc(...))) {
\*     fprintf(stderr, "allocation error\n"); abort(); }
\* in the call that builds cosx or in the one that builds cosy
CosTableFails ==
    /\ pc = "poisson_call"
    /\ \E failed \in {"cosx", "cosy"} :
          AbortHolding(<<"allocation error">>, CosTablesBuilt(failed))

NextPoisson == Poisson \/ CosTableFails

SpecPoisson == InitPoisson /\ [][NextPoisson]_vars

(***************************************************************************)
(* Claims on retinex_poisson_dct.                                          *)
(***************************************************************************)
\* previous value times m / (4 - 2 cosx[col] - 2 cosy[row])
TimesKernel(v, mm, cx, cy) ==
    SDiv(SMul(v, Surd(mm)),
         SSub(SSub(SInt(4), SMul(SInt(2), cx)), SMul(SInt(2), cy)))

\* C4: retinex_poisson_dct sets data[0] to 0 and multiplies every other
\* coefficient k by m / (4 - 2 cosx[k mod nx] - 2 cosy[k div nx]), the two
\* indices staying inside the tables of length nx and ny.
C4_PoissonUpdate ==
    [][(pc = "poisson_call" /\ pc' = "poisson_done") =>
        LET cosx == cos_table(nx)
            cosy == cos_table(ny)
        IN  /\ DOMAIN cosx = 0 .. (nx - 1)
            /\ DOMAIN cosy = 0 .. (ny - 1)
            /\ data_fft'[0] = SInt(0)
            /\ \A k \in 1 .. (nx * ny - 1) :
                  /\ (k % nx) \in DOMAIN cosx
                  /\ (k \div nx) \in DOMAIN cosy
                  /\ PoissonColumn(k, nx) = k % nx
                  /\ PoissonRow(k, nx) = k \div nx
                  /\ data_fft'[k] = TimesKernel(data_fft[k], m,
                                                cosx[k % nx], cosy[k \div nx])
    ]_vars

\* C4 witness: a 3 x 2 coefficient array was updated with m = 1/(nx*ny), the
\* first coefficient is 0 and every other one is nonzero.
C4_Witness ==
    /\ pc = "poisson_done"
    /\ nx = 3 /\ ny = 2 /\ m = <<1, 6>>
    /\ data_fft[0] = SInt(0)
    /\ \A k \in 1 .. 5 : data_fft[k] # SInt(0)

(***************************************************************************)
(* The libfftw transforms retinex_pde plans and executes                   *)
(* (src/retinex_pde_lib.c:316-320 and 330-334), as libfftw defines them:   *)
(*   REDFT10:  Y[k] = 2 sum_{j=0}^{n-1} X[j] cos(Pi (j + 1/2) k / n)       *)
(*   REDFT01:  Y[k] = X[0] + 2 sum_{j=1}^{n-1} X[j] cos(Pi j (k + 1/2) / n)*)
(* A two-dimensional plan of dimensions ny x nx applies the transform to   *)
(* every row (length nx), then to every column (length ny).                *)
(***************************************************************************)
\* coefficient k of the FFTW_REDFT10 transform of the n values X[0..n-1]
Redft10(X, n, k) ==
    SMul(SInt(2),
         SSumTo([j \in 0 .. (n - 1) |->
                    SMul(X[j], Cos((2 * j + 1) * k, 2 * n))], n))

\* value k of the FFTW_REDFT01 transform of the n coefficients X[0..n-1]
Redft01(X, n, k) ==
    SAdd(X[0],
         SMul(SInt(2),
              SSumTo([j \in 0 .. (n - 1) |->
                         IF j = 0 THEN SInt(0)
                         ELSE SMul(X[j], Cos(j * (2 * k + 1), 2 * n))], n)))

R2rLine(kind, X, n, k) ==
    IF kind = "FFTW_REDFT10" THEN Redft10(X, n, k) ELSE Redft01(X, n, k)

\* row j of the w-wide array A, column i of it
RowOf(A, w, j) == [i \in 0 .. (w - 1) |-> A[j * w + i]]
ColumnOf(A, w, h, i) == [j \in 0 .. (h - 1) |-> A[j * w + i]]

\* fftwf_plan_r2r_2d((int) ny, (int) nx, in, out, kind, kind, ...) followed
\* by fftwf_execute(): the values of the transform of A
fftwf_r2r_2d(kind, A, w, h) ==
    LET byRows == [p \in Cells(w, h) |->
                      R2rLine(kind, RowOf(A, w, p \div w), w, p % w)]
    IN  [p \in Cells(w, h) |->
            R2rLine(kind, ColumnOf(byRows, w, h, p % w), h, p \div w)]

(***************************************************************************)
(* retinex_pde (src/retinex_pde_lib.c:275-351)                             *)
(***************************************************************************)
\* 1. / (double) (nx * ny), the m retinex_pde passes to retinex_poisson_dct
PdeM(w, h) == <<1, w * h>>

\* the widths and heights of the channels given to the whole solver: those
\* whose transforms have their cosines in Q(sqrt 2, sqrt 3)
PdeSides == {1, 2, 3}
PdeShapes == PdeSides \X PdeSides

\* sample values and thresholds the whole solver is exercised with
PdeLevels == {RInt(0), RInt(1)}
PdeThresholds == {RInt(0), RInt(1)}

\* the caller's data is a channel of nx * ny samples or, in a faulty
\* caller, the NULL pointer
InitPde ==
    /\ pc = "laplacian_call"
    /\ \E s \in PdeShapes :
          /\ nx = s[1]
          /\ ny = s[2]
          /\ \/ data \in [Cells(s[1], s[2]) -> PdeLevels]
             \/ data = NoBuf
    /\ t \in PdeThresholds
    /\ data_tmp = NoBuf
    /\ data_fft = NoBuf
    /\ m = PdeM(nx, ny)
    /\ data_entry = data
    /\ NormIdle
    /\ MainIdle

\* if (NULL == data) { fprintf(stderr, "a pointer is NULL ...\n"); abort(); }
NullPointer ==
    /\ pc = "laplacian_call"
    /\ DOMAIN data = {}
    /\ Abort("a pointer is NULL and should not be so")

\* if (NULL == (data_tmp = (float *) malloc(sizeof(float) * nx * ny))) {
\*     fprintf(stderr, "allocation error\n"); abort(); }
AllocTmpFails ==
    /\ pc = "laplacian_call"
    /\ DOMAIN data # {}
    /\ Abort("allocation error")

\* if (NULL == (data_fft = (float *) malloc(sizeof(float) * nx * ny))) {
\*     fprintf(stderr, "allocation error\n"); abort(); }
AllocFftFails ==
    /\ pc = "laplacian_done"
    /\ Abort("allocation error")

\* in a build with FFTW_NTHREADS:
\* if (0 == fftwf_init_threads()) {
\*     fprintf(stderr, "fftw initialisation error\n"); abort(); }
\* the malloc of data_fft (line 300) came before; the block is not
\* initialised and never read
FftwInitFails ==
    /\ pc = "laplacian_done"
    /\ AbortHolding(<<"fftw initialisation error">>,
                    <<<<"alloc", "data_fft">>>>)

\* the forward transform is executed into the caller's array as well
DataAfterForwardInPlace(d, spectrum) == Floats(spectrum)

\* the arrays of the plan dct_fw are data_tmp and data_fft: executing it
\* leaves the caller's array as it is
DataAfterForward(d, spectrum) == d

\* the mutant of ForwardEvents: data_tmp is freed before the plan is executed
ForwardEventsEarlyFree ==
    <<<<"alloc", "data_fft">>, <<"alloc", "dct_fw">>,
      <<"release", "data_tmp">>, <<"use", "dct_fw">>, <<"use", "data_tmp">>,
      <<"use", "data_fft">>>>

\* data_fft = malloc(...); dct_fw = fftwf_plan_r2r_2d(..., data_tmp,
\* data_fft, ...); fftwf_execute(dct_fw), which reads data_tmp and writes
\* data_fft; free(data_tmp);
ForwardEvents ==
    <<<<"alloc", "data_fft">>, <<"alloc", "dct_fw">>, <<"use", "dct_fw">>,
      <<"use", "data_tmp">>, <<"use", "data_fft">>,
      <<"release", "data_tmp">>>>

\* dct_bw = fftwf_plan_r2r_2d(..., data_fft, data, ...);
\* fftwf_execute(dct_bw), which reads data_fft; fftwf_destroy_plan(dct_fw);
\* fftwf_destroy_plan(dct_bw); fftwf_free(data_fft);
BackwardEvents ==
    <<<<"alloc", "dct_bw">>, <<"use", "dct_bw">>, <<"use", "data_fft">>,
      <<"release", "dct_fw">>, <<"release", "dct_bw">>,
      <<"release", "data_fft">>>>

\* DBG_PRINTF1("laplace\t%0.2fs\n", DBG_CLOCK_S(LAPLACE)); and the like for
\* POISSON and FOURIER, in a build without NDEBUG: the processor time of each
\* step of a call on at most MaxCells samples prints as 0.00
DebugLines == <<"laplace\t0.00s", "poisson\t0.00s", "fourier\t0.00s">>

\* dct_fw = fftwf_plan_r2r_2d(ny, nx, data_tmp, data_fft, FFTW_REDFT10, ...);
\* fftwf_execute(dct_fw); free(data_tmp);
ForwardDct ==
    /\ pc = "laplacian_done"
    /\ data_fft' = fftwf_r2r_2d("FFTW_REDFT10", Surds(data_tmp), nx, ny)
    /\ data' = DataAfterForward(data, data_fft')
    /\ data_tmp' = NoBuf
    /\ events' = events \o ForwardEvents
    /\ pc' = "poisson_call"
    /\ UNCHANGED <<nx, ny, t, m, data_entry, normVars,
                   mainVars, ref, prev_cosx, prev_cosy,
                   histo_allocated, extVars>>

\* dct_bw = fftwf_plan_r2r_2d(ny, nx, data_fft, data, FFTW_REDFT01, ...);
\* fftwf_execute(dct_bw); ... fftwf_free(data_fft); DBG_PRINTF1(...) three
\* times; return data;
BackwardDct ==
    /\ pc = "poisson_done"
    /\ data' = Floats(fftwf_r2r_2d("FFTW_REDFT01", data_fft, nx, ny))
    /\ data_fft' = NoBuf
    /\ events' = events \o BackwardEvents
    /\ stderr' = stderr \o DebugLines
    /\ pc' = "pde_done"
    /\ UNCHANGED <<nx, ny, t, data_tmp, m, data_entry, size, target_min,
                   target_max, flat_nb_min, flat_nb_max, nb_min, nb_max,
                   min, max, mainVars, ref, prev_cosx, prev_cosy,
                   histo_allocated, extVars>>

\* the channels a caller passes to a later call of retinex_pde
AgainChannels(w, h) ==
    {[p \in Cells(w, h) |-> RInt(p % 2)],
     [p \in Cells(w, h) |-> IF p = 0 THEN RInt(1) ELSE RInt(0)]}

\* the calls of retinex_pde a caller makes one after the other
PdeMaxCalls == 2

\* the calls that returned: each one wrote its DebugLines
PdeCallsReturned == Len(stderr) \div Len(DebugLines)

\* retinex_pde returned and its caller calls it again, with other arguments
CallAgain ==
    /\ pc = "pde_done"
    /\ main_pc = "none"
    /\ PdeCallsReturned < PdeMaxCalls
    /\ \E s \in PdeShapes :
          /\ nx' = s[1]
          /\ ny' = s[2]
          /\ data' \in AgainChannels(s[1], s[2])
          /\ m' = PdeM(s[1], s[2])
    /\ t' \in PdeThresholds
    /\ data_entry' = data'
    /\ prev_cosx' = PoissonTable(prev_cosx, nx)
    /\ prev_cosy' = PoissonTable(prev_cosy, ny)
    /\ events' = <<>>
    /\ pc' = "laplacian_call"
    /\ UNCHANGED <<data_tmp, data_fft, normVars, mainVars, ref,
                   histo_allocated, extVars>>

\* the steps of one call of retinex_pde with a non-NULL data
PdeSteps ==
    \/ AllocTmpFails
    \/ Laplacian
    \/ AllocFftFails
    \/ FftwInitFails
    \/ ForwardDct
    \/ CosTableFails
    \/ Poisson
    \/ BackwardDct

NextPde == NullPointer \/ PdeSteps \/ CallAgain

SpecPde == InitPde /\ [][NextPde]_vars

Spec == SpecPde

(***************************************************************************)
(* Claims on the normalisation m of retinex_pde.                           *)
(***************************************************************************)
\* two stored values agree within the floating-point tolerance
Tolerance == <<1, 20>>
Close(a, b) == RLe(Fabs(RSub(a, b)), Tolerance)

\* every coefficient multiplied by m
TimesM(A, w, h, mm) == [p \in Cells(w, h) |-> SMul(A[p], Surd(mm))]

\* forward transform, multiplication by m, inverse transform
RoundTrip(A, w, h, mm) ==
    Floats(fftwf_r2r_2d("FFTW_REDFT01",
                        TimesM(fftwf_r2r_2d("FFTW_REDFT10", Surds(A), w, h),
                               w, h, mm),
                        w, h))

\* C5: m = 1/(nx*ny) is the exact normalisation of the transform pair:
\* the forward transform, the multiplication by m and the inverse transform
\* reproduce the transformed buffer, and with t = 0 retinex_pde returns the
\* input channel up to an additive constant.
C5_ExactNormalisation ==
    /\ pc = "laplacian_done" =>
          \A p \in Cells(nx, ny) :
              Close(RoundTrip(data_tmp, nx, ny, m)[p], data_tmp[p])
    /\ (pc = "pde_done" /\ t = RInt(0)) =>
          \A p \in Cells(nx, ny) :
              Close(RSub(data[p], data[0]),
                    RSub(data_entry[p], data_entry[0]))

(***************************************************************************)
(* minmax_f32 (normalize_histo_lib.c:42-76)                                *)
(***************************************************************************)
RECURSIVE MinScan(_, _, _, _)
\* the loop of minmax_f32 from position p on, cur being min so far
MinScan(d, n, p, cur) ==
    IF p >= n THEN cur
    ELSE IF RLt(d[p], cur) THEN MinScan(d, n, p + 1, d[p])
    ELSE MinScan(d, n, p + 1, cur)

RECURSIVE MaxScan(_, _, _, _)
\* the loop of minmax_f32 from position p on, cur being max so far
MaxScan(d, n, p, cur) ==
    IF p >= n THEN cur
    ELSE IF RLt(cur, d[p]) THEN MaxScan(d, n, p + 1, d[p])
    ELSE MaxScan(d, n, p + 1, cur)

\* the (*ptr_min, *ptr_max) minmax_f32 stores
minmax_f32(d, n) ==
    [min |-> MinScan(d, n, 1, d[0]), max |-> MaxScan(d, n, 1, d[0])]

(***************************************************************************)
(* minmax_histo_f32 (normalize_histo_lib.c:98-196)                         *)
(***************************************************************************)
\* the two lines both sanity checks print
TooLarge == <<"the number of pixels to flatten is too large",
              "using (size - 1) / 2">>

\* (size - 1) / 2 in minmax_histo_f32
MinmaxClamp(n) == (n - 1) \div 2

\* (int) (x + .5)
RoundedValue(x) == IntCast(RAdd(x, <<1, 2>>))

\* (size_t) ((int) (*data_ptr + .5) - histo_offset)
HistoIndex(x, histo_offset) == RoundedValue(x) - histo_offset

\* the histogram after the n samples were counted: every cell starts at 0
\* and each sample adds 1 to the cell of its index
HistoFill(d, n, histo_size, histo_offset) ==
    [b \in 0 .. (histo_size - 1) |->
        Cardinality({p \in 0 .. (n - 1) : HistoIndex(d[p], histo_offset) = b})]

RECURSIVE SumCells(_, _, _)
\* histo[lo] + ... + histo[hi], for lo <= hi
SumCells(histo, lo, hi) ==
    IF lo = hi THEN histo[lo]
    ELSE LET mid == (lo + hi) \div 2
         IN  SumCells(histo, lo, mid) + SumCells(histo, mid + 1, hi)

\* the first n cells of the cumulative histogram, as a sequence
\* (cell b is element b + 1): after *histo_ptr += *(histo_ptr - 1) ran
\* over the cells in increasing order, cell b holds the sum of cells 0 .. b
HistoCumulate(histo, n) == [c \in 1 .. n |-> SumCells(histo, 0, c - 1)]

RECURSIVE MinWalk(_, _, _, _)
\* while (histo_ptr < histo_end && *histo_ptr <= nb_min) histo_ptr++;
\* the final histo_ptr - histo
MinWalk(cumul, histo_size, nbmin, idx) ==
    IF idx < histo_size /\ cumul[idx + 1] <= nbmin
    THEN MinWalk(cumul, histo_size, nbmin, idx + 1)
    ELSE idx

RECURSIVE MaxWalk(_, _, _, _)
\* while (histo_ptr >= histo && *histo_ptr > (size - nb_max)) histo_ptr--;
\* the final histo_ptr - histo (-1 when the walk leaves the array)
MaxWalk(cumul, n, nbmax, idx) ==
    IF idx >= 0 /\ cumul[idx + 1] > n - nbmax
    THEN MaxWalk(cumul, n, nbmax, idx - 1)
    ELSE idx

\* the mutant of MaxStep: the walk is left where it stopped
MaxStepSkipped(idx, histo_size) == idx

\* if (histo_ptr < histo_end - 1) histo_ptr++;
MaxStep(idx, histo_size) == IF idx < histo_size - 1 THEN idx + 1 ELSE idx

\* the whole function: the stored *ptr_min and *ptr_max, the counts in
\* effect after the sanity check and the lines printed
minmax_histo_f32(d, n, nbmin_arg, nbmax_arg) ==
    LET fires == nbmin_arg + nbmax_arg >= n
        nbmin == IF fires THEN MinmaxClamp(n) ELSE nbmin_arg
        nbmax == IF fires THEN MinmaxClamp(n) ELSE nbmax_arg
        mm == minmax_f32(d, n)
        histo_size == (RoundedValue(mm.max) - RoundedValue(mm.min)) + 1
        histo_offset == RoundedValue(mm.min)
        cumul == HistoCumulate(HistoFill(d, n, histo_size, histo_offset),
                               histo_size)
        imin == MinWalk(cumul, histo_size, nbmin, 0)
        imax == MaxStep(MaxWalk(cumul, n, nbmax, histo_size - 1), histo_size)
    IN  [min |-> RInt(imin + histo_offset),
         max |-> RInt(imax + histo_offset),
         nb_min |-> nbmin,
         nb_max |-> nbmax,
         err |-> IF fires THEN TooLarge ELSE <<>>]

\* the histograms allocated and not released once minmax_histo_f32
\* returned: histo is malloc'ed (line 139) and the function returns
\* (line 195) without a free
MinmaxHistoLeaves(allocated) == allocated + 1

(***************************************************************************)
(* normalize_histo_f32 (normalize_histo_lib.c:213-286)                     *)
(***************************************************************************)
\* the call reaches minmax_histo_f32: it did not return by the shortcut
\* target_max == target_min, and 0 != flat_nb_min || 0 != flat_nb_max
NormalizeUsesHisto(tmin, tmax, fmin, fmax) ==
    tmax # tmin /\ (0 # fmin \/ 0 # fmax)

\* the mutant of NormalizeClamp: size / 2
NormalizeClampHalf(n) == n \div 2

\* (size - 1) / 2 in normalize_histo_f32
NormalizeClamp(n) == (n - 1) \div 2

\* the mutant of NormalizeScale: the quotient is taken the other way round
NormalizeScaleInverse(tmin, tmax, lo, hi) ==
    IF tmax = tmin THEN RInt(0) ELSE RDiv(RSub(hi, lo), RSub(tmax, tmin))

\* the mutant of NormalizeScale: the source range counts its levels,
\* max - min + 1
NormalizeScaleLevels(tmin, tmax, lo, hi) ==
    RDiv(RSub(tmax, tmin), RAdd(RSub(hi, lo), RInt(1)))

\* scale = (double) (target_max - target_min) / (double) (max - min)
NormalizeScale(tmin, tmax, lo, hi) == RDiv(RSub(tmax, tmin), RSub(hi, lo))

\* the mutant of NormalizeSample: samples below min are rescaled too
NormalizeSampleNoFloor(x, lo, hi, scale, tmin, tmax) ==
    IF RLt(x, hi) THEN RAdd(RMul(RSub(x, lo), scale), tmin)
    ELSE tmax

\* if (*data_ptr < min) ... else if (*data_ptr < max) ... else ...
NormalizeSample(x, lo, hi, scale, tmin, tmax) ==
    IF RLt(x, lo) THEN tmin
    ELSE IF RLt(x, hi) THEN RAdd(RMul(RSub(x, lo), scale), tmin)
    ELSE tmax

\* the mutant of NormalizeMid: the constant output is target_min
NormalizeMidLow(tmin, tmax) == tmin

\* target_mid = (target_max + target_min) / 2;
NormalizeMid(tmin, tmax) == RDiv(RAdd(tmax, tmin), RInt(2))

\* the whole function: the returned data, the min and max it used (Unset
\* when the shortcut returned before they were computed), the counts in
\* effect after its sanity check and the lines printed
normalize_histo_f32(d, n, tmin, tmax, fmin_arg, fmax_arg) ==
    LET fires == fmin_arg + fmax_arg >= n
        fmin == IF fires THEN NormalizeClamp(n) ELSE fmin_arg
        fmax == IF fires THEN NormalizeClamp(n) ELSE fmax_arg
        err == IF fires THEN TooLarge ELSE <<>>
        histo == minmax_histo_f32(d, n, fmin, fmax)
        mm == IF 0 # fmin \/ 0 # fmax
              THEN [min |-> histo.min, max |-> histo.max, err |-> histo.err]
              ELSE [min |-> minmax_f32(d, n).min,
                    max |-> minmax_f32(d, n).max, err |-> <<>>]
    IN  IF tmax = tmin
        THEN [data |-> [p \in 0 .. (n - 1) |-> tmin],
              min |-> Unset, max |-> Unset,
              nb_min |-> fmin, nb_max |-> fmax, err |-> err]
        ELSE [data |->
                 IF RLe(mm.max, mm.min)
                 THEN [p \in 0 .. (n - 1) |-> NormalizeMid(tmin, tmax)]
                 ELSE LET scale == NormalizeScale(tmin, tmax, mm.min, mm.max)
                      IN  [p \in 0 .. (n - 1) |->
                              NormalizeSample(d[p], mm.min, mm.max, scale,
                                              tmin, tmax)],
              min |-> mm.min, max |-> mm.max,
              nb_min |-> fmin, nb_max |-> fmax, err |-> err \o mm.err]

(***************************************************************************)
(* Specification SpecNorm: minmax_histo_f32 and normalize_histo_f32        *)
(* applied to every array within the bounds, and to the ramp 0, 1, ..., 99 *)
(* with 5 samples flattened on each side.  Arrays that span [0, 255] are   *)
(* normalised without flattening, and a call without flattening is         *)
(* followed by a second one on its own output.                             *)
(***************************************************************************)
\* largest array size and largest flattening count of the small arrays
MaxSize == 3
MaxFlat == 2

\* sample values: -1.75, 0, 0.5, 1.25, 3
SampleValues == {<<-7, 4>>, <<0, 1>>, <<1, 2>>, <<5, 4>>, <<3, 1>>}

\* sample values of the arrays that span the 8-bit range: 0, 1/3, 255
SpanValues == {<<0, 1>>, <<1, 3>>, <<255, 1>>}

\* target ranges (target_min, target_max)
Targets == {<<RInt(0), RInt(255)>>, <<RInt(0), RInt(0)>>,
            <<RInt(255), RInt(0)>>}

\* the scenario array 0, 1, ..., 99
RampSize == 100
Ramp == [p \in 0 .. (RampSize - 1) |-> RInt(p)]

InitNorm ==
    /\ \/ /\ pc = "norm_call"
          /\ size \in 1 .. MaxSize
          /\ data \in [0 .. (size - 1) -> SampleValues]
          /\ flat_nb_min \in 0 .. MaxFlat
          /\ flat_nb_max \in 0 .. MaxFlat
          /\ \E tg \in Targets : target_min = tg[1] /\ target_max = tg[2]
       \/ /\ pc = "normalize_call"
          /\ size \in 1 .. MaxSize
          /\ data \in [0 .. (size - 1) -> SpanValues]
          /\ flat_nb_min = 0
          /\ flat_nb_max = 0
          /\ \E tg \in Targets : target_min = tg[1] /\ target_max = tg[2]
       \/ /\ pc = "norm_call"
          /\ size = RampSize
          /\ data = Ramp
          /\ flat_nb_min = 5
          /\ flat_nb_max = 5
          /\ target_min = RInt(0)
          /\ target_max = RInt(255)
    /\ data_entry = data
    /\ nb_min = flat_nb_min
    /\ nb_max = flat_nb_max
    /\ min = Unset
    /\ max = Unset
    /\ stderr = <<>>
    /\ nx = size /\ ny = 1 /\ t = RInt(0) /\ m = PdeM(size, 1)
    /\ data_tmp = NoBuf /\ data_fft = NoBuf
    /\ MainIdle

\* minmax_histo_f32(data, size, flat_nb_min, flat_nb_max, &min, &max);
MinmaxHisto ==
    /\ pc = "norm_call"
    /\ LET r == minmax_histo_f32(data, size, flat_nb_min, flat_nb_max)
       IN  /\ min' = r.min
           /\ max' = r.max
           /\ nb_min' = r.nb_min
           /\ nb_max' = r.nb_max
           /\ stderr' = stderr \o r.err
    /\ histo_allocated' = MinmaxHistoLeaves(histo_allocated)
    /\ pc' = "minmax_histo_done"
    /\ UNCHANGED <<data, data_entry, solverVars, size, target_min, target_max,
                   flat_nb_min, flat_nb_max, mainVars, ref, prev_cosx,
                   prev_cosy, events, extVars>>

\* (void) normalize_histo_f32(data, size, target_min, target_max,
\*                            flat_nb_min, flat_nb_max);
NormalizeHisto ==
    /\ \/ pc \in {"norm_call", "normalize_call"}
       \/ /\ pc = "normalize_done"
          /\ main_pc = "none"
          /\ flat_nb_min = 0
          /\ flat_nb_max = 0
    /\ LET r == normalize_histo_f32(data, size, target_min, target_max,
                                    flat_nb_min, flat_nb_max)
       IN  /\ data' = r.data
           /\ min' = r.min
           /\ max' = r.max
           /\ nb_min' = r.nb_min
           /\ nb_max' = r.nb_max
           /\ stderr' = stderr \o r.err
           /\ histo_allocated' =
                  IF NormalizeUsesHisto(target_min, target_max,
                                        r.nb_min, r.nb_max)
                  THEN MinmaxHistoLeaves(histo_allocated)
                  ELSE histo_allocated
    /\ data_entry' = data
    /\ pc' = IF pc = "normalize_done" THEN "normalize_twice"
             ELSE "normalize_done"
    /\ UNCHANGED <<solverVars, size, target_min, target_max,
                   flat_nb_min, flat_nb_max, mainVars, ref, prev_cosx,
                   prev_cosy, events, extVars>>

\* the lines the sanity check on the two counts prints:
\* if (nb_min + nb_max >= size) { ...; fprintf(stderr, "the number of pixels
\* to flatten is too large\n"); fprintf(stderr, "using (size - 1) / 2\n"); }
SanityLines(n, nbmin_arg, nbmax_arg) ==
    IF nbmin_arg + nbmax_arg >= n THEN TooLarge ELSE <<>>

\* minmax_histo_f32 called directly: the malloc of the histogram fails, after
\* the sanity check printed its lines
\* if (NULL == histo) { fprintf(stderr, "allocation error\n"); abort(); }
MinmaxHistoAllocFails ==
    /\ pc = "norm_call"
    /\ AbortAfter(SanityLines(size, flat_nb_min, flat_nb_max)
                      \o <<"allocation error">>)

\* normalize_histo_f32 reaches minmax_histo_f32 with the counts its own
\* sanity check left, and there the malloc of the histogram fails, after the
\* sanity check of minmax_histo_f32 printed its lines
NormalizeHistoAllocFails ==
    /\ pc \in {"norm_call", "normalize_call"}
    /\ LET fires == flat_nb_min + flat_nb_max >= size
           fmin == IF fires THEN NormalizeClamp(size) ELSE flat_nb_min
           fmax == IF fires THEN NormalizeClamp(size) ELSE flat_nb_max
       IN  /\ NormalizeUsesHisto(target_min, target_max, fmin, fmax)
           /\ AbortAfter(SanityLines(size, flat_nb_min, flat_nb_max)
                             \o SanityLines(size, fmin, fmax)
                             \o <<"allocation error">>)

NextNorm ==
    \/ MinmaxHisto
    \/ NormalizeHisto
    \/ MinmaxHistoAllocFails
    \/ NormalizeHistoAllocFails

SpecNorm == InitNorm /\ [][NextNorm]_vars

(***************************************************************************)
(* Claims on minmax_histo_f32 and normalize_histo_f32.                     *)
(***************************************************************************)
SetMin(S) == CHOOSE x \in S : \A y \in S : x <= y
SetMax(S) == CHOOSE x \in S : \A y \in S : x >= y

\* the rounded values of the samples
RoundedValues(d, n) == {RoundedValue(d[p]) : p \in 0 .. (n - 1)}

\* #{x : round(x) <= v}, #{x : round(x) >= v}
CountRoundedLe(d, n, v) ==
    Cardinality({p \in 0 .. (n - 1) : RoundedValue(d[p]) <= v})
CountRoundedGe(d, n, v) ==
    Cardinality({p \in 0 .. (n - 1) : RoundedValue(d[p]) >= v})

\* the smallest rounded value whose cumulative count exceeds k
SmallestExceeding(d, n, k) ==
    SetMin({v \in RoundedValues(d, n) : CountRoundedLe(d, n, v) > k})

\* its mirror image: the largest rounded value whose count from the high
\* end exceeds k
LargestExceeding(d, n, k) ==
    SetMax({v \in RoundedValues(d, n) : CountRoundedGe(d, n, v) > k})

\* the data reflected, x -> -x
Reflected(d, n) == [p \in 0 .. (n - 1) |-> RSub(RInt(0), d[p])]

\* the direct call returned, its counts were admissible and not both zero
HistoCallDone ==
    /\ pc = "minmax_histo_done"
    /\ flat_nb_min + flat_nb_max < size
    /\ (flat_nb_min # 0 \/ flat_nb_max # 0)

\* every sample is an integer
IntegerValued(d, n) == \A p \in 0 .. (n - 1) : d[p][2] = 1

\* C6: with a nonzero count, minmax_histo_f32 returns as min the smallest
\* rounded value whose cumulative count exceeds k_min and as max its mirror
\* image, the largest rounded value whose count from the high end exceeds
\* k_max; reflecting integer-valued data (x -> -x) and swapping the counts
\* reflects the interval.
C6_MirroredInterval ==
    HistoCallDone =>
        /\ min = RInt(SmallestExceeding(data, size, flat_nb_min))
        /\ max = RInt(LargestExceeding(data, size, flat_nb_max))
        /\ IntegerValued(data, size) =>
              LET r == minmax_histo_f32(Reflected(data, size), size,
                                        flat_nb_max, flat_nb_min)
              IN  /\ r.min = RSub(RInt(0), max)
                  /\ r.max = RSub(RInt(0), min)

\* normalize_histo_f32 returned from the ramp 0..99 with 5 and 5 flattened
\* and the target range [0, 255]
RampNormalized ==
    /\ pc = "normalize_done"
    /\ data_entry = Ramp
    /\ size = RampSize
    /\ flat_nb_min = 5 /\ flat_nb_max = 5
    /\ target_min = RInt(0) /\ target_max = RInt(255)

\* C7: on the ramp 0..99 with k_min = k_max = 5 and targets [0, 255] the
\* effective min is 5 and the effective max 94, sample 2 becomes 0, sample
\* 97 becomes 255 and sample 50 becomes (50 - 5) * 255 / 89.
C7_ScenarioB ==
    RampNormalized =>
        /\ min = RInt(5)
        /\ max = RInt(94)
        /\ data[2] = RInt(0)
        /\ data[97] = RInt(255)
        /\ data[50] = Rat((50 - 5) * 255, 89)

\* #{x : x < v}, #{x : x > v}
CountBelow(d, n, v) == Cardinality({p \in 0 .. (n - 1) : RLt(d[p], v)})
CountAbove(d, n, v) == Cardinality({p \in 0 .. (n - 1) : RLt(v, d[p])})

\* C8: with nb_min + nb_max < size, at most nb_min samples are
\* strictly below the returned min and at most nb_max strictly above the
\* returned max, for integer and non-integer samples alike.
C8_SamplesOutside ==
    (pc = "minmax_histo_done" /\ flat_nb_min + flat_nb_max < size) =>
        /\ CountBelow(data, size, min) <= flat_nb_min
        /\ CountAbove(data, size, max) <= flat_nb_max

\* C9: in normalize_histo_f32, counts with flat_nb_min + flat_nb_max >= size
\* are both replaced by (size - 1) / 2 and the two lines are printed; the
\* counts in effect then sum to less than size, and the check of
\* minmax_histo_f32 does not print them a second time.
C9_FallbackReported ==
    pc = "normalize_done" =>
        /\ flat_nb_min + flat_nb_max >= size =>
              /\ nb_min = (size - 1) \div 2
              /\ nb_max = (size - 1) \div 2
              /\ stderr = TooLarge
        /\ flat_nb_min + flat_nb_max < size =>
              /\ nb_min = flat_nb_min
              /\ nb_max = flat_nb_max
              /\ stderr = <<>>
        /\ nb_min + nb_max < size

\* C9 witness: the fallback was taken on an array of three samples with
\* distinct targets, and the histogram was used with the replaced counts
\* (1 and 1).
C9_Witness ==
    /\ pc = "normalize_done"
    /\ size = 3
    /\ flat_nb_min + flat_nb_max >= size
    /\ target_min # target_max
    /\ stderr = TooLarge

\* clamp(v, lo, hi)
Clamp(v, lo, hi) == IF RLt(v, lo) THEN lo ELSE IF RLt(hi, v) THEN hi ELSE v

\* (x - min) * (target_max - target_min) / (max - min) + target_min
Rescaled(x, lo, hi, tmin, tmax) ==
    RAdd(RDiv(RMul(RSub(x, lo), RSub(tmax, tmin)), RSub(hi, lo)), tmin)

\* normalize_histo_f32 returned through its rescaling branch
RescaleDone ==
    /\ pc = "normalize_done"
    /\ RLt(target_min, target_max)
    /\ min # Unset
    /\ RLt(min, max)

\* C10: with target_min < target_max and max > min, every output sample is
\* clamp((x - min) * (target_max - target_min) / (max - min) + target_min,
\* target_min, target_max): samples below min become target_min, samples at
\* or above max become target_max, and every output lies in the target
\* range.
C10_ClampedRescale ==
    RescaleDone =>
        \A p \in 0 .. (size - 1) :
            /\ data[p] = Clamp(Rescaled(data_entry[p], min, max,
                                        target_min, target_max),
                               target_min, target_max)
            /\ RLt(data_entry[p], min) => data[p] = target_min
            /\ RLe(max, data_entry[p]) => data[p] = target_max
            /\ RLe(target_min, data[p]) /\ RLe(data[p], target_max)

\* C10 witness: a rescaling with one sample strictly below min, one strictly
\* between min and max and one at or above max.
C10_Witness ==
    /\ RescaleDone
    /\ \E p \in 0 .. (size - 1) : RLt(data_entry[p], min)
    /\ \E p \in 0 .. (size - 1) :
          /\ RLt(min, data_entry[p]) /\ RLt(data_entry[p], max)
          /\ RLt(target_min, data[p]) /\ RLt(data[p], target_max)
    /\ \E p \in 0 .. (size - 1) : RLe(max, data_entry[p])

(***************************************************************************)
(* Claims on normalize_histo_f32 without flattening.                       *)
(***************************************************************************)
\* the smallest and the largest sample
TrueMin(d, n) ==
    LET S == {d[p] : p \in 0 .. (n - 1)}
    IN  CHOOSE x \in S : \A y \in S : RLe(x, y)
TrueMax(d, n) ==
    LET S == {d[p] : p \in 0 .. (n - 1)}
    IN  CHOOSE x \in S : \A y \in S : RLe(y, x)

\* the first call of normalize_histo_f32 returned, it was made with
\* flat_nb_min = flat_nb_max = 0
PlainCallDone ==
    /\ pc = "normalize_done"
    /\ flat_nb_min = 0
    /\ flat_nb_max = 0

\* C12: with k_min = k_max = 0 and non-constant data, normalize_histo_f32
\* uses the true extremes of the data as min and max, sends the minimum
\* sample to target_min, the maximum sample to target_max and every sample
\* x to (x - min) * (target_max - target_min) / (max - min) + target_min,
\* none being changed by saturation.
C12_LinearRescale ==
    (PlainCallDone /\ TrueMin(data_entry, size) # TrueMax(data_entry, size)) =>
        LET lo == TrueMin(data_entry, size)
            hi == TrueMax(data_entry, size)
        IN  /\ target_min # target_max => (min = lo /\ max = hi)
            /\ \A p \in 0 .. (size - 1) :
                  /\ data[p] = Rescaled(data_entry[p], lo, hi,
                                        target_min, target_max)
                  /\ data_entry[p] = lo => data[p] = target_min
                  /\ data_entry[p] = hi => data[p] = target_max

\* C12 witness: a plain call on data with a sample strictly between its
\* extremes, which was sent strictly between distinct targets.
C12_Witness ==
    /\ PlainCallDone
    /\ target_min # target_max
    /\ \E p \in 0 .. (size - 1) :
          /\ RLt(TrueMin(data_entry, size), data_entry[p])
          /\ RLt(data_entry[p], TrueMax(data_entry, size))
          /\ data[p] # target_min
          /\ data[p] # target_max

\* the call was made with target_min = 0, target_max = 255 and
\* flat_nb_min = flat_nb_max = 0
PlainByteCall ==
    /\ flat_nb_min = 0
    /\ flat_nb_max = 0
    /\ target_min = RInt(0)
    /\ target_max = RInt(255)

\* C13: with target_min = 0, target_max = 255 and k_min = k_max = 0,
\* normalize_histo_f32 leaves unchanged every array whose minimum is 0 and
\* whose maximum is 255, and a second application returns the array the
\* first one returned.
C13_Idempotent ==
    /\ (/\ pc = "normalize_done"
        /\ PlainByteCall
        /\ TrueMin(data_entry, size) = RInt(0)
        /\ TrueMax(data_entry, size) = RInt(255)) => data = data_entry
    /\ (pc = "normalize_twice" /\ PlainByteCall) => data = data_entry

\* C13 witness: the second application returned on an array that spans
\* [0, 255] and holds a sample that is not an integer.
C13_Witness ==
    /\ pc = "normalize_twice"
    /\ PlainByteCall
    /\ TrueMin(data, size) = RInt(0)
    /\ TrueMax(data, size) = RInt(255)
    /\ \E p \in 0 .. (size - 1) : data[p] = <<1, 3>>

(***************************************************************************)
(* main (src/retinex_pde.c:53-135), called with four arguments of which   *)
(* the first is not "-v", from the conversion of the threshold on.         *)
(***************************************************************************)
\* the mutant of NonAlphaCount: every channel is processed
NonAlphaAll(channels) == channels

\* if (3 <= nc) nc_non_alpha = 3; else nc_non_alpha = 1;
NonAlphaCount(channels) == IF 3 <= channels THEN 3 ELSE 1

\* the mutant of ChannelOffset: channel * nx
ChannelOffsetRow(c, w, h) == c * w

\* channel * nx * ny, the offset of the pointer handed to the callee
ChannelOffset(c, w, h) == c * w * h

\* the n samples the callee sees behind the pointer buf + off
Slice(buf, off, n) == [p \in 0 .. (n - 1) |-> buf[off + p]]

\* buf after the callee stored s behind the pointer buf + off
WithSlice(buf, off, n, s) ==
    [q \in DOMAIN buf |->
        IF off <= q /\ q < off + n THEN s[q - off] ELSE buf[q]]

\* A double is the record of its 53-bit significand, a sequence of bits
\* with the least significant bit first, and of the exponent of that bit.
\* the len low bits of n, least significant first
BitsOf(n, len) == [i \in 1 .. len |-> (n \div 2 ^ (i - 1)) % 2]

RECURSIVE BitsValue(_)
\* the integer whose bits are bits
BitsValue(bits) ==
    IF bits = <<>> THEN 0 ELSE bits[1] + 2 * BitsValue(Tail(bits))

RECURSIVE BitsTimes(_, _, _, _)
\* the bits, from position i on, of bits * k + carry * 2 ^ (i - 1)
BitsTimes(bits, k, i, carry) ==
    IF i > Len(bits)
    THEN (IF carry = 0 THEN <<>>
          ELSE <<carry % 2>> \o BitsTimes(bits, k, i, carry \div 2))
    ELSE LET sum == bits[i] * k + carry
         IN  <<sum % 2>> \o BitsTimes(bits, k, i + 1, sum \div 2)

\* the double constant 0.015, 0x1.eb851eb851eb8p-7
Double015 ==
    [mant |-> BitsOf(59055800, 26) \o BitsOf(128849018, 27), exp |-> -59]

\* the double nearest to bits * 2 ^ exp, ties to the even significand, for
\* bits of 53 positions or more whose last one is 1
DoubleRound(bits, exp) ==
    LET drop == Len(bits) - 53
        kept == SubSeq(bits, drop + 1, Len(bits))
        up == /\ drop > 0
              /\ bits[drop] = 1
              /\ \/ kept[1] = 1
                 \/ \E i \in 1 .. (drop - 1) : bits[i] = 1
        next == BitsTimes(kept, 1, 1, 1)
    IN  IF ~up THEN [mant |-> kept, exp |-> exp + drop]
        ELSE IF Len(next) = 53 THEN [mant |-> next, exp |-> exp + drop]
        ELSE [mant |-> Tail(next), exp |-> exp + drop + 1]

\* x * k in double arithmetic, k >= 1 being an integer below 2^30
DoubleTimes(x, k) == DoubleRound(BitsTimes(x.mant, k, 1, 0), x.exp)

\* (size_t) x for a double 0 <= x < 2^31
DoubleToSize(x) ==
    IF -x.exp >= 53 THEN 0
    ELSE BitsValue(SubSeq(x.mant, 1 - x.exp, 53))

\* (size_t) (0.015 * nx * ny)
FlatCount(w, h) == DoubleToSize(DoubleTimes(DoubleTimes(Double015, w), h))

\* the value of a pointer that points nowhere
Null == "NULL"

\* return data; the only return statement of retinex_pde: the pointer it
\* returns is the pointer it was given
PdeReturn == "data"

\* largest width and height, largest number of samples nc * nx * ny and
\* largest number of channels of the decoded image
MainMaxSide == 2
MainMaxSamples == 8
MaxChannels == 4

\* pixel values of the decoded image: 0.0 and 1.0
MainLevels == {RInt(0), RInt(1)}

\* the thresholds atof(argv[1]) gives: those of the solver, -1 and 256
MainThresholds == PdeThresholds \cup {RInt(-1), RInt(256)}

\* main after t = atof(argv[1]); decoded is the image the file argv[2]
\* holds
InitMain ==
    /\ pc = "main_threshold"
    /\ main_pc = "main"
    /\ \E s \in Shapes(MainMaxSide, MainMaxSamples) :
          /\ nx = s[1]
          /\ ny = s[2]
          /\ nc \in {k \in 1 .. MaxChannels : k * s[1] * s[2] <= MainMaxSamples}
          /\ decoded \in [0 .. (nc * s[1] * s[2] - 1) -> MainLevels]
    /\ t \in MainThresholds
    /\ main_data = NoBuf
    /\ data_rtnx = NoBuf
    /\ channel = 0
    /\ norm_png = NoBuf
    /\ rtnx_png = NoBuf
    /\ exit_status = "running"
    /\ ref = NoBuf
    /\ prev_cosx = NoBuf
    /\ prev_cosy = NoBuf
    /\ events = <<>>
    /\ histo_allocated = 0
    /\ ExtIdle
    /\ data = NoBuf
    /\ data_entry = NoBuf
    /\ data_tmp = NoBuf
    /\ data_fft = NoBuf
    /\ m = PdeM(nx, ny)
    /\ NormIdle

\* main returns EXIT_FAILURE after the line msg went to stderr
MainFails(msg) ==
    /\ stderr' = Append(stderr, msg)
    /\ exit_status' = "EXIT_FAILURE"
    /\ pc' = "exited"
    /\ UNCHANGED <<data, data_entry, solverVars, size, target_min, target_max,
                   flat_nb_min, flat_nb_max, nb_min, nb_max, min, max,
                   main_pc, nc, channel, decoded, data_rtnx, norm_png,
                   rtnx_png, ref, prev_cosx, prev_cosy, events,
                   histo_allocated, extVars>>

\* if (0. > t || 255. < t) { fprintf(stderr, "the retinex threshold must be
\* in [0..255]\n"); return EXIT_FAILURE; }
ThresholdRejected ==
    /\ pc = "main_threshold"
    /\ RLt(t, RInt(0)) \/ RLt(RInt(255), t)
    /\ MainFails("the retinex threshold must be in [0..255]")
    /\ UNCHANGED main_data

\* the threshold passed the test
ThresholdAccepted ==
    /\ pc = "main_threshold"
    /\ ~(RLt(t, RInt(0)) \/ RLt(RInt(255), t))
    /\ pc' = "main_read"
    /\ UNCHANGED <<data, data_entry, solverVars, normVars, mainVars, ref,
                   prev_cosx, prev_cosy, events, histo_allocated, extVars>>

\* if (NULL == (data = read_png_f32(argv[2], &nx, &ny, &nc))) {
\*     fprintf(stderr, "the image could not be properly read\n");
\*     return EXIT_FAILURE; }
ReadPngFails ==
    /\ pc = "main_read"
    /\ MainFails("the image could not be properly read")
    /\ UNCHANGED main_data

\* data = read_png_f32(argv[2], &nx, &ny, &nc) returned the image
ReadPng ==
    /\ pc = "main_read"
    /\ main_data' = decoded
    /\ pc' = "main_alloc"
    /\ UNCHANGED <<data, data_entry, solverVars, normVars, main_pc, nc,
                   channel, decoded, data_rtnx, norm_png, rtnx_png,
                   exit_status, ref, prev_cosx, prev_cosy, events,
                   histo_allocated, extVars>>

\* if (NULL == (data_rtnx = (float *) malloc(...))) {
\*     fprintf(stderr, "allocation error\n"); free(data);
\*     return EXIT_FAILURE; }
AllocRtnxFails ==
    /\ pc = "main_alloc"
    /\ MainFails("allocation error")
    /\ main_data' = NoBuf

\* data_rtnx = malloc(...); memcpy(data_rtnx, data, ...);
CopyDecoded ==
    /\ pc = "main_alloc"
    /\ data_rtnx' = main_data
    /\ pc' = "norm_loop"
    /\ UNCHANGED <<data, data_entry, solverVars, normVars, main_pc, nc,
                   channel, decoded, main_data, norm_png, rtnx_png,
                   exit_status, ref, prev_cosx, prev_cosy, events,
                   histo_allocated, extVars>>

\* both loops normalise the copy data_rtnx
NormalizedBufferCopy(loop) == "data_rtnx"

\* the buffer a loop of main passes to normalize_histo_f32: data in the
\* first loop, data_rtnx in the second
NormalizedBuffer(loop) == IF loop = "norm_loop" THEN "data" ELSE "data_rtnx"

\* main enters normalize_histo_f32(buf + channel * nx * ny, nx * ny, 0., 255.,
\*     (size_t) (0.015 * nx * ny), (size_t) (0.015 * nx * ny)),
\* buf being data in the first loop and data_rtnx in the second: the
\* callee's data points to the samples of the channel
CallNormalize ==
    /\ \/ pc = "norm_loop" /\ channel < NonAlphaCount(nc)
       \/ pc = "rtnx_norm"
    /\ data' = Slice(IF NormalizedBuffer(pc) = "data" THEN main_data
                     ELSE data_rtnx,
                     ChannelOffset(channel, nx, ny), nx * ny)
    /\ data_entry' = data'
    /\ size' = nx * ny
    /\ target_min' = RInt(0)
    /\ target_max' = RInt(255)
    /\ flat_nb_min' = FlatCount(nx, ny)
    /\ flat_nb_max' = FlatCount(nx, ny)
    /\ nb_min' = FlatCount(nx, ny)
    /\ nb_max' = FlatCount(nx, ny)
    /\ min' = Unset
    /\ max' = Unset
    /\ main_pc' = pc
    /\ pc' = "normalize_call"
    /\ UNCHANGED <<solverVars, stderr, nc, channel, decoded, main_data,
                   data_rtnx, norm_png, rtnx_png, exit_status, ref, prev_cosx, prev_cosy, events,
                   histo_allocated, extVars>>

\* normalize_histo_f32 returned to main: the samples it wrote are those of
\* the channel; channel++
ReturnNormalize ==
    /\ pc = "normalize_done"
    /\ main_pc \in {"norm_loop", "rtnx_norm"}
    /\ IF NormalizedBuffer(main_pc) = "data"
       THEN /\ main_data' = WithSlice(main_data,
                                      ChannelOffset(channel, nx, ny),
                                      nx * ny, data)
            /\ UNCHANGED data_rtnx
       ELSE /\ data_rtnx' = WithSlice(data_rtnx,
                                      ChannelOffset(channel, nx, ny),
                                      nx * ny, data)
            /\ UNCHANGED main_data
    /\ pc' = IF main_pc = "norm_loop" THEN "norm_loop" ELSE "rtnx_loop"
    /\ channel' = channel + 1
    /\ main_pc' = "main"
    /\ data' = NoBuf
    /\ UNCHANGED <<data_entry, solverVars, normVars, nc, decoded, norm_png,
                   rtnx_png, exit_status, ref, prev_cosx, prev_cosy, events,
                   histo_allocated, extVars>>

\* write_png_f32(argv[3], data, nx, ny, nc); free(data);
WriteNormalized ==
    /\ pc = "norm_loop"
    /\ channel = NonAlphaCount(nc)
    /\ norm_png' = main_data
    /\ main_data' = NoBuf
    /\ channel' = 0
    /\ pc' = "rtnx_loop"
    /\ UNCHANGED <<data, data_entry, solverVars, normVars, main_pc, nc,
                   decoded, data_rtnx, rtnx_png, exit_status, ref, prev_cosx, prev_cosy, events,
                   histo_allocated, extVars>>

\* main enters retinex_pde(data_rtnx + channel * nx * ny, nx, ny, t): the
\* callee's data points to the samples of the channel
CallRetinex ==
    /\ pc = "rtnx_loop"
    /\ channel < NonAlphaCount(nc)
    /\ data' = Slice(data_rtnx, ChannelOffset(channel, nx, ny), nx * ny)
    /\ data_entry' = data'
    /\ main_pc' = "rtnx_loop"
    /\ prev_cosx' = IF channel = 0 THEN prev_cosx
                    ELSE PoissonTable(prev_cosx, nx)
    /\ prev_cosy' = IF channel = 0 THEN prev_cosy
                    ELSE PoissonTable(prev_cosy, ny)
    /\ events' = <<>>
    /\ pc' = "laplacian_call"
    /\ UNCHANGED <<solverVars, normVars, nc, channel, decoded, main_data,
                   data_rtnx, norm_png, rtnx_png, exit_status, ref,
                   histo_allocated, extVars>>

\* retinex_pde returned to main: the samples it wrote are those of the
\* channel, and main tests the returned pointer
\* if (NULL == retinex_pde(...)) { fprintf(stderr, "the retinex PDE failed\n");
\*     free(data_rtnx); return EXIT_FAILURE; }
ReturnRetinex ==
    /\ pc = "pde_done"
    /\ main_pc = "rtnx_loop"
    /\ IF PdeReturn = Null
       THEN /\ stderr' = Append(stderr, "the retinex PDE failed")
            /\ data_rtnx' = NoBuf
            /\ exit_status' = "EXIT_FAILURE"
            /\ pc' = "exited"
       ELSE /\ data_rtnx' = WithSlice(data_rtnx,
                                      ChannelOffset(channel, nx, ny), nx * ny,
                                      data)
            /\ pc' = "rtnx_norm"
            /\ UNCHANGED <<stderr, exit_status>>
    /\ main_pc' = "main"
    /\ data' = NoBuf
    /\ UNCHANGED <<data_entry, solverVars, size, target_min,
                   target_max, flat_nb_min, flat_nb_max, nb_min, nb_max, min,
                   max, nc, channel, decoded, main_data, norm_png, rtnx_png,
                   ref, prev_cosx, prev_cosy, events,
                   histo_allocated, extVars>>

\* write_png_f32(argv[4], data_rtnx, nx, ny, nc); free(data_rtnx);
\* return EXIT_SUCCESS;
WriteRetinex ==
    /\ pc = "rtnx_loop"
    /\ channel = NonAlphaCount(nc)
    /\ rtnx_png' = data_rtnx
    /\ data_rtnx' = NoBuf
    /\ exit_status' = "EXIT_SUCCESS"
    /\ pc' = "exited"
    /\ UNCHANGED <<data, data_entry, solverVars, normVars, main_pc, nc,
                   channel, decoded, main_data, norm_png, ref, prev_cosx, prev_cosy, events,
                   histo_allocated, extVars>>

\* on the images of at most MainMaxSamples samples the two counts main
\* passes are 0, and normalize_histo_f32 does not reach the histogram
NextMain ==
    \/ ThresholdRejected
    \/ ThresholdAccepted
    \/ ReadPngFails
    \/ ReadPng
    \/ AllocRtnxFails
    \/ CopyDecoded
    \/ CallNormalize
    \/ NormalizeHisto
    \/ ReturnNormalize
    \/ WriteNormalized
    \/ CallRetinex
    \/ PdeSteps
    \/ ReturnRetinex
    \/ WriteRetinex

SpecMain == InitMain /\ [][NextMain]_vars

(***************************************************************************)
(* Specification SpecNormMain: the normaliser called on its own, as in     *)
(* SpecNorm, and called by main, as in SpecMain.                           *)
(***************************************************************************)
InitNormMain == InitNorm \/ InitMain

NextNormMain == NextNorm \/ NextMain

SpecNormMain == InitNormMain /\ [][NextNormMain]_vars

(***************************************************************************)
(* Claims on the constant output of normalize_histo_f32.                   *)
(***************************************************************************)
\* every sample of the n-sample buffer buf is v
AllEqual(buf, n, v) == \A p \in 0 .. (n - 1) : buf[p] = v

\* main ran to its end on a 2x2 gray image that is 0 everywhere, with t = 0
ScenarioADone ==
    /\ pc = "exited"
    /\ exit_status = "EXIT_SUCCESS"
    /\ nx = 2 /\ ny = 2 /\ nc = 1
    /\ t = RInt(0)
    /\ AllEqual(decoded, 4, RInt(0))

\* C11: when target_min # target_max and the max normalize_histo_f32 uses
\* is <= the min it uses, and so for every constant channel whatever the
\* counts, every output sample is (target_min + target_max) / 2; an
\* all-zero 2x2 channel solved with t = 0 and normalised to [0, 255] by main
\* is written as 127.5 everywhere.
C11_ConstantOutput ==
    /\ (/\ pc = "normalize_done"
        /\ target_min # target_max
        /\ \/ RLe(max, min)
           \/ AllEqual(data_entry, size, data_entry[0]))
          => AllEqual(data, size, RDiv(RAdd(target_min, target_max), RInt(2)))
    /\ ScenarioADone => AllEqual(rtnx_png, 4, <<255, 2>>)

\* C11 witness: main wrote the solved all-zero 2x2 channel, whose
\* normalisation found max <= min.
C11_Witness ==
    /\ ScenarioADone
    /\ RLe(max, min)
    /\ AllEqual(rtnx_png, 4, <<255, 2>>)

(***************************************************************************)
(* Claims on the channels main processes.                                  *)
(***************************************************************************)
\* main ran to its end
MainDone == pc = "exited" /\ exit_status = "EXIT_SUCCESS"

\* the positions of the samples of channel c
ChannelCells(c) == (c * nx * ny) .. ((c + 1) * nx * ny - 1)

\* C16: main processes 3 channels when nc >= 3 and 1 otherwise, and every
\* channel beyond them (the alpha plane) is in both written images what it
\* is in the decoded image.
C16_AlphaUntouched ==
    MainDone =>
        /\ channel = (IF nc >= 3 THEN 3 ELSE 1)
        /\ \A c \in channel .. (nc - 1) :
              \A q \in ChannelCells(c) :
                  /\ norm_png[q] = decoded[q]
                  /\ rtnx_png[q] = decoded[q]

\* C16 witness: main ran to its end on an RGBA image whose alpha plane is
\* not constant and whose first channel was changed in both written images.
C16_Witness ==
    /\ MainDone
    /\ nc = 4
    /\ \E q \in ChannelCells(3) : decoded[q] # decoded[3 * nx * ny]
    /\ \E q \in ChannelCells(0) : norm_png[q] # decoded[q]
    /\ \E q \in ChannelCells(0) : rtnx_png[q] # decoded[q]

\* a step of main in its second loop that leaves data_rtnx allocated
SecondLoopStep ==
    /\ pc \in {"rtnx_loop", "laplacian_call", "laplacian_done",
               "poisson_call", "poisson_done", "pde_done", "rtnx_norm",
               "normalize_call", "normalize_done"}
    /\ main_pc \in {"main", "rtnx_loop", "rtnx_norm"}
    /\ pc' # "exited"

\* the samples of the channel being processed, as retinex_pde is entered,
\* are those of the decoded image
EntersWithOriginal ==
    (pc = "laplacian_call" /\ main_pc = "rtnx_loop") =>
        \A p \in 0 .. (nx * ny - 1) :
            data[p] = decoded[channel * nx * ny + p]

\* two channels that are equal in the decoded image are equal in the
\* written image
EqualChannelsAgree ==
    MainDone =>
        \A c1, c2 \in 0 .. (channel - 1) :
            (\A p \in 0 .. (nx * ny - 1) :
                decoded[c1 * nx * ny + p] = decoded[c2 * nx * ny + p])
            => (\A p \in 0 .. (nx * ny - 1) :
                   rtnx_png[c1 * nx * ny + p] = rtnx_png[c2 * nx * ny + p])

\* C17: processing channel c (retinex_pde, then normalize_histo_f32) reads
\* and writes the samples of channel c only: every step leaves every other
\* channel of data_rtnx unchanged, the solver is entered with the samples of
\* the decoded image, and channels that are equal in the decoded image are
\* equal in the written one.
C17_ChannelsIndependent ==
    /\ [][SecondLoopStep =>
             \A c \in 0 .. (nc - 1) :
                 c # channel =>
                     \A q \in ChannelCells(c) : data_rtnx'[q] = data_rtnx[q]]_vars
    /\ [](EntersWithOriginal /\ EqualChannelsAgree)

\* C17 witness: main ran to its end on an RGB image with two equal channels
\* and one different channel, and the written channels are not all equal.
C17_Witness ==
    /\ MainDone
    /\ nc = 3
    /\ \A p \in 0 .. (nx * ny - 1) : decoded[p] = decoded[nx * ny + p]
    /\ \E p \in 0 .. (nx * ny - 1) : decoded[p] # decoded[2 * nx * ny + p]
    /\ \E p \in 0 .. (nx * ny - 1) : rtnx_png[p] # rtnx_png[2 * nx * ny + p]
    /\ \E p \in 0 .. (nx * ny - 1) : rtnx_png[p] # decoded[p]

(***************************************************************************)
(* Doubles that hold a rational, extended with the values a division by    *)
(* zero produces: <<0, 0>> is NaN, <<1, 0>> is +infinity and <<-1, 0>> is  *)
(* -infinity.                                                              *)
(***************************************************************************)
FNaN == <<0, 0>>
FInf(s) == <<s, 0>>
IsFinite(x) == x[2] # 0
Sign(n) == IF n < 0 THEN -1 ELSE IF n > 0 THEN 1 ELSE 0

\* a / b in double arithmetic
FDiv(a, b) ==
    IF a = FNaN \/ b = FNaN THEN FNaN
    ELSE IF ~IsFinite(a) THEN
        IF ~IsFinite(b) THEN FNaN
        ELSE FInf(a[1] * (IF b[1] < 0 THEN -1 ELSE 1))
    ELSE IF ~IsFinite(b) THEN RInt(0)
    ELSE IF b[1] = 0 THEN
        IF a[1] = 0 THEN FNaN ELSE FInf(Sign(a[1]))
    ELSE RDiv(a, b)

\* a * b in double arithmetic
FMul(a, b) ==
    IF a = FNaN \/ b = FNaN THEN FNaN
    ELSE IF ~IsFinite(a) \/ ~IsFinite(b) THEN
        IF a[1] = 0 \/ b[1] = 0 THEN FNaN ELSE FInf(Sign(a[1]) * Sign(b[1]))
    ELSE RMul(a, b)

(***************************************************************************)
(* mean_dt and norm_dt (src/norm_mean_dt.c)                                *)
(*                                                                         *)
(* A number of norm_dt is the tuple <<n, c, r, d>>, the value              *)
(* (n + c sqrt r) / d in lowest terms with d > 0 and r squarefree (c = 0   *)
(* and r = 1 for a rational), which holds the square roots exactly.  The   *)
(* values a division by zero produces have d = 0: <<0, 0, 1, 0>> is NaN,   *)
(* <<1, 0, 1, 0>> is +infinity and <<-1, 0, 1, 0>> is -infinity.  All the  *)
(* numbers of one call that are not rational have the same r.  The sums,   *)
(* products, quotients and square roots of doubles are exact; the floats   *)
(* are rounded: the squares of mean_dt and the samples norm_dt stores.     *)
(* Where the exact sample is 0 the doubles of the code can leave a         *)
(* residue of the order of 2^(-52) instead.                                *)
(***************************************************************************)
DNaN == <<0, 0, 1, 0>>
DInf(s) == <<s, 0, 1, 0>>
DInt(n) == <<n, 0, 1, 1>>
DIsFinite(x) == x[4] # 0

RECURSIVE SquarePart(_, _)
\* the largest s whose square divides v >= 1, the prime factors of s being
\* k or more
SquarePart(v, k) ==
    IF k * k > v THEN 1
    ELSE IF v % (k * k) = 0 THEN k * SquarePart(v \div (k * k), k)
    ELSE SquarePart(v, k + 1)

\* (n + c sqrt r) / d for r >= 0 and d # 0, in lowest terms
DNorm(n, c, r, d) ==
    LET radical == r # 0 /\ c # 0
        s == IF radical THEN SquarePart(r, 2) ELSE 1
        r1 == IF radical THEN r \div (s * s) ELSE 1
        n1 == IF radical /\ r1 = 1 THEN n + c * s ELSE n
        c1 == IF radical /\ r1 # 1 THEN c * s ELSE 0
        g == Gcd(Gcd(Abs(d), Abs(n1)), Abs(c1))
        sgn == IF d < 0 THEN -1 ELSE 1
    IN  <<(sgn * n1) \div g, (sgn * c1) \div g, IF c1 = 0 THEN 1 ELSE r1,
          Abs(d) \div g>>

\* -1, 0 or 1 as x is negative, zero or positive
DSign(x) ==
    LET sn == Sign(x[1])
        sc == Sign(x[2])
    IN  IF sc = 0 \/ sc = sn THEN sn
        ELSE IF sn = 0 THEN sc
        ELSE IF x[1] * x[1] > x[2] * x[2] * x[3] THEN sn ELSE sc

DNeg(x) == <<-x[1], -x[2], x[3], x[4]>>

\* a + b in double arithmetic
DAdd(a, b) ==
    IF a = DNaN \/ b = DNaN THEN DNaN
    ELSE IF ~DIsFinite(a) THEN
        IF ~DIsFinite(b) /\ b # a THEN DNaN ELSE a
    ELSE IF ~DIsFinite(b) THEN b
    ELSE DNorm(a[1] * b[4] + b[1] * a[4], a[2] * b[4] + b[2] * a[4],
               IF a[2] # 0 THEN a[3] ELSE b[3], a[4] * b[4])

DSub(a, b) == DAdd(a, DNeg(b))

\* a * b in double arithmetic; two numbers with different r are multiples
\* of their square roots
DMul(a, b) ==
    IF a = DNaN \/ b = DNaN THEN DNaN
    ELSE IF ~DIsFinite(a) \/ ~DIsFinite(b) THEN
        IF DSign(a) = 0 \/ DSign(b) = 0 THEN DNaN
        ELSE DInf(DSign(a) * DSign(b))
    ELSE IF a[2] # 0 /\ b[2] # 0 /\ a[3] # b[3]
    THEN DNorm(0, a[2] * b[2], a[3] * b[3], a[4] * b[4])
    ELSE LET r == IF a[2] # 0 THEN a[3] ELSE b[3]
         IN  DNorm(a[1] * b[1] + a[2] * b[2] * r,
                   a[1] * b[2] + a[2] * b[1], r, a[4] * b[4])

\* a / b in double arithmetic
DDiv(a, b) ==
    IF a = DNaN \/ b = DNaN THEN DNaN
    ELSE IF ~DIsFinite(a) THEN
        IF ~DIsFinite(b) THEN DNaN
        ELSE DInf(a[1] * (IF DSign(b) < 0 THEN -1 ELSE 1))
    ELSE IF ~DIsFinite(b) THEN DInt(0)
    ELSE IF b = DInt(0) THEN
        IF a = DInt(0) THEN DNaN ELSE DInf(DSign(a))
    ELSE DMul(a, DNorm(b[4] * b[1], -(b[4] * b[2]), b[3],
                       b[1] * b[1] - b[2] * b[2] * b[3]))

\* sqrt(x) of a double that holds a rational, a NaN or an infinity
DSqrt(x) ==
    CASE ~DIsFinite(x) -> IF x = DInf(1) THEN x ELSE DNaN
      [] DIsFinite(x) /\ x[2] = 0 ->
             IF x[1] < 0 THEN DNaN ELSE DNorm(0, 1, x[1] * x[4], x[4])

\* the element of a set of one element; {e(v) : v \in {x}} evaluates x
\* once, whatever the number of its uses in e
TheOne(S) == CHOOSE v \in S : TRUE

\* Naturals of more than 31 bits, for the rounding of a double to a float:
\* the sequence of the digits in base 2^15, lowest first, without leading
\* zeros.
Limb == 2 ^ 15

RECURSIVE BigNat(_)
\* the natural n
BigNat(n) == IF n = 0 THEN <<>> ELSE <<n % Limb>> \o BigNat(n \div Limb)

\* digit i of a, 0 past its end
BigDigit(a, i) == IF i <= Len(a) THEN a[i] ELSE 0

RECURSIVE TrimmedLen(_, _)
\* the length of the first n digits of a without their leading zeros
TrimmedLen(a, n) == IF n > 0 /\ a[n] = 0 THEN TrimmedLen(a, n - 1) ELSE n

BigTrim(a) == TheOne({SubSeq(v, 1, TrimmedLen(v, Len(v))) : v \in {a}})

RECURSIVE BigAddFrom(_, _, _, _)
\* the digits i and above of a + b + carry * Limb^(i - 1)
BigAddFrom(a, b, i, carry) ==
    IF i > Len(a) /\ i > Len(b)
    THEN IF carry = 0 THEN <<>> ELSE <<carry>>
    ELSE LET sum == BigDigit(a, i) + BigDigit(b, i) + carry
         IN  <<sum % Limb>> \o BigAddFrom(a, b, i + 1, sum \div Limb)

BigAdd(a, b) == TheOne({BigAddFrom(u, v, 1, 0) : u \in {a}, v \in {b}})

RECURSIVE BigSubFrom(_, _, _, _)
\* the digits i and above of a - b, for a >= b
BigSubFrom(a, b, i, borrow) ==
    IF i > Len(a) THEN <<>>
    ELSE LET diff == a[i] - BigDigit(b, i) - borrow
         IN  <<diff % Limb>> \o
             BigSubFrom(a, b, i + 1, IF diff < 0 THEN 1 ELSE 0)

BigSub(a, b) ==
    TheOne({BigTrim(BigSubFrom(u, v, 1, 0)) : u \in {a}, v \in {b}})

RECURSIVE BigCmpFrom(_, _, _)
\* the comparison of two naturals of the same length, from digit i down
BigCmpFrom(a, b, i) ==
    IF i = 0 THEN 0
    ELSE IF a[i] # b[i] THEN (IF a[i] < b[i] THEN -1 ELSE 1)
    ELSE BigCmpFrom(a, b, i - 1)

\* -1, 0 or 1 as a is less than, equal to or greater than b
BigCmp(a, b) ==
    TheOne({IF Len(u) # Len(v) THEN (IF Len(u) < Len(v) THEN -1 ELSE 1)
            ELSE BigCmpFrom(u, v, Len(u)) : u \in {a}, v \in {b}})

RECURSIVE BigTimesDigit(_, _, _, _)
\* the digits i and above of a * s + carry * Limb^(i - 1), for a digit s
BigTimesDigit(a, s, i, carry) ==
    IF i > Len(a) THEN (IF carry = 0 THEN <<>> ELSE <<carry>>)
    ELSE LET prod == a[i] * s + carry
         IN  <<prod % Limb>> \o BigTimesDigit(a, s, i + 1, prod \div Limb)

RECURSIVE BigMulFrom(_, _, _)
\* a times the digits i and above of b, leading zeros included
BigMulFrom(a, b, i) ==
    IF i > Len(b) THEN <<>>
    ELSE BigAdd(BigTimesDigit(a, b[i], 1, 0),
                <<0>> \o BigMulFrom(a, b, i + 1))

BigMul(a, b) ==
    TheOne({BigTrim(BigMulFrom(u, v, 1)) : u \in {a}, v \in {b}})

BigSquare(a) == TheOne({BigMul(v, v) : v \in {a}})

\* 2^k
BigPow2(k) ==
    [i \in 1 .. (k \div 15 + 1) |->
        IF i = k \div 15 + 1 THEN 2 ^ (k % 15) ELSE 0]

\* -1, 0 or 1 as a - b + sc sqrt c2 is negative, zero or positive, for the
\* naturals a, b and c2 and the sign sc
SurdSign(a, b, sc, c2) ==
    TheOne({LET rational == BigCmp(u, v)
            IN  IF sc = 0 \/ sc = rational THEN rational
                ELSE IF rational = 0 THEN sc
                ELSE rational *
                     BigCmp(BigSquare(IF rational < 0 THEN BigSub(v, u)
                                      ELSE BigSub(u, v)), c2) :
            u \in {a}, v \in {b}})

\* the finite x = (n + c sqrt r) / d times 2^k, as
\* (sn N + sc sqrt C2) / D with the naturals N, D and C2:
\* <<sn, N, sc, C2, D>>
Scaled(x, k) ==
    LET up == BigPow2(IF k > 0 THEN k ELSE 0)
        down == BigPow2(IF k < 0 THEN -k ELSE 0)
    IN  <<Sign(x[1]), BigMul(BigNat(Abs(x[1])), up),
          Sign(x[2]),
          BigMul(BigSquare(BigMul(BigNat(Abs(x[2])), up)), BigNat(x[3])),
          BigMul(BigNat(x[4]), down)>>

\* -1, 0 or 1 as the scaled number sx is less than, equal to or greater
\* than the natural p
CmpScaled(sx, p) ==
    TheOne({IF v[1] < 0
            THEN SurdSign(<<>>, BigAdd(v[2], BigMul(v[5], BigNat(p))),
                          v[3], v[4])
            ELSE SurdSign(v[2], BigMul(v[5], BigNat(p)), v[3], v[4]) :
            v \in {sx}})

RECURSIVE LeastScale(_, _)
\* the least k of range[1] .. range[2] with x * 2^k >= 2^23, for x > 0
LeastScale(x, range) ==
    TheOne({IF r[1] = r[2] THEN r[1]
            ELSE LET mid == r[1] + (r[2] - r[1]) \div 2
                 IN  IF CmpScaled(Scaled(x, mid), 2 ^ 23) >= 0
                     THEN LeastScale(x, <<r[1], mid>>)
                     ELSE LeastScale(x, <<mid + 1, r[2]>>) :
            r \in {range}})

RECURSIVE SignificandFloor(_, _)
\* the greatest q of range[1] .. range[2] that is not above the scaled
\* number sx
SignificandFloor(sx, range) ==
    TheOne({IF r[1] = r[2] THEN r[1]
            ELSE LET mid == r[1] + (r[2] - r[1] + 1) \div 2
                 IN  IF CmpScaled(v, mid) >= 0
                     THEN SignificandFloor(v, <<mid, r[2]>>)
                     ELSE SignificandFloor(v, <<r[1], mid - 1>>) :
            v \in {sx}, r \in {range}})

\* the significand of 24 bits nearest to x * 2^k, ties to the even one, q
\* being the significand below
NearestSignificand(x, k, q) ==
    TheOne({IF half > 0 \/ (half = 0 /\ q % 2 = 1) THEN q + 1 ELSE q :
            half \in {CmpScaled(Scaled(x, k + 1), 2 * q + 1)}})

\* the float nearest to x > 0 as <<significand, k>>, the float being
\* significand * 2^(-k)
FloatParts(x) ==
    TheOne({TheOne({<<NearestSignificand(x, k, q), k>> :
                    q \in {SignificandFloor(Scaled(x, k),
                                            <<2 ^ 23, 2 ^ 24 - 1>>)}}) :
            k \in {LeastScale(x, <<-40, 31>>)}})

\* the float of sign sgn and of the parts f
FloatValue(sgn, f) ==
    IF f[2] >= 0 THEN DNorm(sgn * f[1], 0, 1, 2 ^ f[2])
    ELSE DInt(sgn * f[1] * 2 ^ (-f[2]))

\* the float nearest to the double x, ties to the even significand of 24
\* bits: the conversion of a store into a float.  The floats of the model
\* are those that are numbers <<n, c, r, d>> of 31 bits, of a magnitude
\* below 2^31 and not below 2^(-7); on any other the evaluation fails.
FloatRound(x) ==
    TheOne({IF ~DIsFinite(v) \/ DSign(v) = 0 THEN v
            ELSE IF v[2] = 0 /\ v[4] = 1 /\ Abs(v[1]) <= 2 ^ 24 THEN v
            ELSE TheOne({FloatValue(DSign(v), f) :
                         f \in {FloatParts(IF DSign(v) < 0 THEN DNeg(v)
                                           ELSE v)}}) :
            v \in {x}})

RECURSIVE DSumTo(_, _)
\* f[0] + ... + f[n - 1]
DSumTo(f, n) == IF n = 0 THEN DInt(0) ELSE DAdd(DSumTo(f, n - 1), f[n - 1])

\* mean_dt(data, size, &mean, &dt): the pair <<mean, dt>>; the square
\* (*ptr_data) * (*ptr_data) is a product of floats, a float
mean_dt(d, n) ==
    LET sum == DSumTo(d, n)
        sumsq == DSumTo([p \in 0 .. (n - 1) |->
                            FloatRound(DMul(d[p], d[p]))], n)
        mean == DDiv(sum, DInt(n))
        dt == DSub(DDiv(sumsq, DInt(n)), DMul(mean, mean))
    IN  <<mean, DSqrt(dt)>>

\* a = dt_ref / dt_data;
NormDtScale(dt_ref, dt_data) == DDiv(dt_ref, dt_data)

\* b = mean_ref - a * mean_data;
NormDtShift(mean_ref, a, mean_data) == DSub(mean_ref, DMul(a, mean_data))

\* norm_dt(data, ref, size): the content of data at return
norm_dt(d, r, n) ==
    LET sr == mean_dt(r, n)
        sd == mean_dt(d, n)
        a == NormDtScale(sr[2], sd[2])
        b == NormDtShift(sr[1], a, sd[1])
    IN  [p \in 0 .. (n - 1) |-> FloatRound(DAdd(DMul(a, d[p]), b))]

(***************************************************************************)
(* Specification SpecDt: norm_dt applied to every pair of arrays within    *)
(* the bounds, and to the arrays of two samples 4097 or 4099, whose        *)
(* squares are no floats.                                                  *)
(***************************************************************************)
\* largest size of the arrays given to norm_dt, and their sample values
DtMaxSize == 4
DtValues == {DInt(0), DInt(1), DInt(3)}
DtLargeValues == {DInt(4097), DInt(4099)}

InitDt ==
    /\ pc = "norm_dt_call"
    /\ \/ /\ size = 2
          /\ data \in [0 .. 1 -> DtLargeValues]
       \/ /\ size \in 1 .. DtMaxSize
          /\ data \in [0 .. (size - 1) -> DtValues]
    /\ ref \in [0 .. (size - 1) -> DtValues]
    /\ prev_cosx = NoBuf
    /\ prev_cosy = NoBuf
    /\ events = <<>>
    /\ histo_allocated = 0
    /\ ExtIdle
    /\ data_entry = data
    /\ target_min = Unset
    /\ target_max = Unset
    /\ flat_nb_min = 0
    /\ flat_nb_max = 0
    /\ nb_min = 0
    /\ nb_max = 0
    /\ min = Unset
    /\ max = Unset
    /\ stderr = <<>>
    /\ nx = size /\ ny = 1 /\ t = RInt(0) /\ m = PdeM(size, 1)
    /\ data_tmp = NoBuf /\ data_fft = NoBuf
    /\ main_pc = "none"
    /\ nc = 1
    /\ channel = 0
    /\ decoded = NoBuf
    /\ main_data = NoBuf
    /\ data_rtnx = NoBuf
    /\ norm_png = Unset
    /\ rtnx_png = Unset
    /\ exit_status = Unset

\* norm_dt(data, ref, size);
NormDt ==
    /\ pc = "norm_dt_call"
    /\ data' = norm_dt(data, ref, size)
    /\ pc' = "norm_dt_done"
    /\ UNCHANGED <<data_entry, solverVars, normVars, mainVars, ref, prev_cosx, prev_cosy, events,
                   histo_allocated, extVars>>

NextDt == NormDt

SpecDt == InitDt /\ [][NextDt]_vars

(***************************************************************************)
(* Claims on norm_dt.                                                      *)
(***************************************************************************)
\* norm_dt returned
NormDtDone == pc = "norm_dt_done"

\* every sample of d equals the first one
Constant(d, n) == \A p \in 0 .. (n - 1) : d[p] = d[0]

\* C14: norm_dt called with a data array whose standard deviation is 0 (a
\* constant array) fails with a DegenerateInput error instead of dividing
\* by zero: it writes nothing into data, and in particular no NaN and no
\* infinite value.
C14_DegenerateRejected ==
    (NormDtDone /\ Constant(data_entry, size)) =>
        /\ \A p \in 0 .. (size - 1) : DIsFinite(data[p])
        /\ data = data_entry

\* the population mean of d
PopMean(d, n) == DDiv(DSumTo(d, n), DInt(n))

\* the population variance of d, the mean of the squared deviations
PopVar(d, n) ==
    LET mu == PopMean(d, n)
    IN  DDiv(DSumTo([p \in 0 .. (n - 1) |->
                        DMul(DSub(d[p], mu), DSub(d[p], mu))], n), DInt(n))

\* the population standard deviation of d
PopStd(d, n) == DSqrt(PopVar(d, n))

\* norm_dt returned from a call with data and ref of nonzero standard
\* deviation
RegularDtCall ==
    /\ NormDtDone
    /\ ~Constant(data_entry, size)
    /\ ~Constant(ref, size)

\* An integer of more than 31 bits: <<sign, natural>>
ZOf(n) == <<Sign(n), BigNat(Abs(n))>>

ZNeg(a) == TheOne({<<-v[1], v[2]>> : v \in {a}})

ZAdd(a, b) ==
    TheOne({IF u[1] = 0 THEN v
            ELSE IF v[1] = 0 THEN u
            ELSE IF u[1] = v[1] THEN <<u[1], BigAdd(u[2], v[2])>>
            ELSE TheOne({IF c = 0 THEN <<0, <<>>>>
                         ELSE IF c > 0 THEN <<u[1], BigSub(u[2], v[2])>>
                         ELSE <<v[1], BigSub(v[2], u[2])>> :
                         c \in {BigCmp(u[2], v[2])}}) :
            u \in {a}, v \in {b}})

ZSub(a, b) == ZAdd(a, ZNeg(b))

ZMul(a, b) ==
    TheOne({<<u[1] * v[1], BigMul(u[2], v[2])>> : u \in {a}, v \in {b}})

ZAbs(a) == TheOne({<<v[1] * v[1], v[2]>> : v \in {a}})

\* a <= b
ZLe(a, b) == ZSub(a, b)[1] <= 0

RECURSIVE ZSumTo(_, _)
\* f[0] + ... + f[n - 1]
ZSumTo(f, n) == IF n = 0 THEN ZOf(0) ELSE ZAdd(ZSumTo(f, n - 1), f[n - 1])

\* the largest denominator of the n floats of d, a power of two that all
\* the others divide
MaxDenominator(d, n) ==
    CHOOSE den \in {d[p][4] : p \in 0 .. (n - 1)} :
        \A p \in 0 .. (n - 1) : d[p][4] <= den

\* the n floats of d as integers over their largest denominator
OverCommon(d, n) ==
    TheOne({[p \in 0 .. (n - 1) |->
                ZMul(ZOf(d[p][1]), ZOf(den \div d[p][4]))] :
            den \in {MaxDenominator(d, n)}})

\* the relative tolerance 1e-5 the specification gives for the statistics
\* after norm_dt, as 1 / PerTolerance
PerTolerance == ZOf(10 ^ 5)

\* the integers sum and scale being such that the mean of the floats is
\* sum / scale: that mean is within the tolerance of the rational target,
\* |sum / scale - t| <= |t| / 10^5, every term multiplied by the
\* denominators
MeanClose(sum, scale, target) ==
    ZLe(ZMul(ZAbs(ZSub(ZMul(sum, ZOf(target[4])),
                       ZMul(ZOf(target[1]), scale))), PerTolerance),
        ZMul(ZAbs(ZOf(target[1])), scale))

\* the mean of the n floats of d is within the tolerance of target
MeanWithinTolerance(d, n, target) ==
    TheOne({MeanClose(sum, scale, target) :
            sum \in {ZSumTo(OverCommon(d, n), n)},
            scale \in {ZMul(ZOf(n), ZOf(MaxDenominator(d, n)))}})

\* got is between low and high
ZBetween(low, got, high) ==
    TheOne({ZLe(low, v) /\ ZLe(v, high) : v \in {got}})

\* the integers variance and scale being such that the variance of the
\* floats is variance / scale^2: it is between (1 - 1e-5)^2 t and
\* (1 + 1e-5)^2 t for the rational target t, every term multiplied by the
\* denominators and by 10^10
VarianceClose(variance, wanted, target) ==
    ZBetween(ZMul(ZMul(ZOf(10 ^ 5 - 1), ZOf(10 ^ 5 - 1)), wanted),
             ZMul(ZMul(ZMul(variance, ZOf(target[4])), PerTolerance),
                  PerTolerance),
             ZMul(ZMul(ZOf(10 ^ 5 + 1), ZOf(10 ^ 5 + 1)), wanted))

\* n sumsq - sum^2 for the sum and the sum of the squares of the n
\* integers of over
ScaledVariance(over, n) ==
    TheOne({ZSub(ZMul(ZOf(n),
                      ZSumTo([p \in 0 .. (n - 1) |-> ZMul(v[p], v[p])], n)),
                 ZMul(ZSumTo(v, n), ZSumTo(v, n))) :
            v \in {over}})

\* the standard deviation of the n floats of d is within the tolerance of
\* the square root of the rational target
StdWithinTolerance(d, n, target) ==
    TheOne({VarianceClose(ScaledVariance(OverCommon(d, n), n),
                          ZMul(ZOf(target[1]), ZMul(scale, scale)),
                          target) :
            scale \in {ZMul(ZOf(n), ZOf(MaxDenominator(d, n)))}})

\* C15: norm_dt computes the population mean and standard deviation of
\* both arrays and replaces every sample x of data by a * x + b with
\* a = std(ref) / std(data) and b = mean(ref) - a * mean(data), stored as a
\* float; afterwards the mean and the standard deviation of data equal
\* those of ref within the relative tolerance 1e-5 of float samples.
C15_MatchesReference ==
    RegularDtCall =>
        LET a == DDiv(PopStd(ref, size), PopStd(data_entry, size))
            b == DSub(PopMean(ref, size), DMul(a, PopMean(data_entry, size)))
        IN  /\ \A p \in 0 .. (size - 1) : DIsFinite(data[p])
            /\ mean_dt(ref, size) = <<PopMean(ref, size), PopStd(ref, size)>>
            /\ mean_dt(data_entry, size) =
                   <<PopMean(data_entry, size), PopStd(data_entry, size)>>
            /\ \A p \in 0 .. (size - 1) :
                   data[p] = FloatRound(DAdd(DMul(a, data_entry[p]), b))
            /\ MeanWithinTolerance(data, size, PopMean(ref, size))
            /\ StdWithinTolerance(data, size, PopVar(ref, size))

(***************************************************************************)
(* Claims on the calls of retinex_pde.                                     *)
(***************************************************************************)
\* the modelled call goes from position a to position b
PdeStep(a, b) == pc = a /\ pc' = b

\* C18: retinex_pde keeps no solver state between calls: the cosine tables
\* are built by every call, so each stage of a call is the function of
\* that call's own arrays and arguments whatever calls came before it, and
\* no solver buffer is left allocated between two calls.
C18_NoSolverState ==
    /\ [][/\ PdeStep("laplacian_call", "laplacian_done") =>
                data_tmp' = discrete_laplacian_threshold(data, nx, ny, t)
          /\ PdeStep("laplacian_done", "poisson_call") =>
                data_fft' = fftwf_r2r_2d("FFTW_REDFT10", Surds(data_tmp),
                                         nx, ny)
          /\ PdeStep("poisson_call", "poisson_done") =>
                data_fft' = retinex_poisson_dct(data_fft, nx, ny, PdeM(nx, ny))
          /\ PdeStep("poisson_done", "pde_done") =>
                data' = Floats(fftwf_r2r_2d("FFTW_REDFT01", data_fft,
                                            nx, ny))
          /\ pc \notin {"pde_done", "aborted"} =>
                nx' = nx /\ ny' = ny /\ t' = t]_vars
    /\ [](pc \in {"laplacian_call", "pde_done"} =>
              DOMAIN data_tmp = {} /\ DOMAIN data_fft = {})

\* a call returned that came after a call on a narrower channel
C18_Witness ==
    /\ pc = "pde_done"
    /\ DOMAIN prev_cosx # {}
    /\ Cardinality(DOMAIN prev_cosx) < nx
    /\ Cardinality(DOMAIN prev_cosy) < ny
    /\ data # data_entry

\* C19: every failure exit of retinex_pde (the NULL pointer, the failed
\* allocation of the tmp buffer, of the spectral buffer and of either
\* cosine table) is taken before the first write to the caller's data,
\* which only the final inverse transform writes.
C19_FailuresBeforeWrite ==
    /\ [][data' # data =>
              \/ PdeStep("poisson_done", "pde_done")
              \/ PdeStep("pde_done", "laplacian_call")]_vars
    /\ [](pc = "aborted" => data = data_entry)

\* the allocation of a cosine table failed, after the laplacian and the
\* forward transform of a channel that is not flat
C19_Witness ==
    /\ pc = "aborted"
    /\ DOMAIN data # {}
    /\ DOMAIN data_fft # {}
    /\ \E p \in Cells(nx, ny) : data_fft[p] # SInt(0)
    /\ stderr = <<"allocation error">>

\* main has ended otherwise than by returning EXIT_SUCCESS
MainFailed ==
    /\ main_pc = "rtnx_loop"
    /\ exit_status \notin {Unset, "running", "EXIT_SUCCESS"}

\* C20: retinex_pde returns data on success and NULL on an error, so that
\* main's test of the returned pointer is reachable: when the solver fails,
\* main prints 'the retinex PDE failed', frees data_rtnx and exits with
\* EXIT_FAILURE.
C20_FailureReported ==
    MainFailed =>
        /\ exit_status = "EXIT_FAILURE"
        /\ Len(stderr) > 0
        /\ stderr[Len(stderr)] = "the retinex PDE failed"
        /\ DOMAIN data_rtnx = {}

(***************************************************************************)
(* Claims on the order of the steps of main.                               *)
(***************************************************************************)
\* main is in its second loop, or in a function called from it
InSecondLoop ==
    \/ pc \in {"rtnx_loop", "rtnx_norm"}
    \/ main_pc \in {"rtnx_loop", "rtnx_norm"}

\* main is in its first loop, or in a function called from it
InFirstLoop == pc = "norm_loop" \/ main_pc = "norm_loop"

\* C26: main computes the retinex result from the decoded input: data_rtnx
\* is the decoded image from the copy until the normalised image is
\* written, that is all along the first loop, the
\* normalised image is written and data freed before the second loop does
\* anything, retinex_pde is entered with the decoded samples of its
\* channel, and a channel of data_rtnx is normalised only right after
\* retinex_pde returned for that channel.
C26_RetinexFromOriginal ==
    /\ [](InFirstLoop => (DOMAIN norm_png = {} /\ data_rtnx = decoded))
    /\ [](InSecondLoop => (DOMAIN norm_png # {} /\ DOMAIN main_data = {}))
    /\ []EntersWithOriginal
    /\ [][/\ (pc' = "normalize_call" /\ main_pc' = "rtnx_norm") =>
                 pc = "rtnx_norm"
          /\ pc' = "rtnx_norm" =>
                 (pc = "pde_done" /\ channel' = channel)]_vars

\* C26 witness: main ran to its end on an RGB image, the normalised image
\* differs from the decoded one and the retinex image from the normalised
\* one.
C26_Witness ==
    /\ MainDone
    /\ nc = 3
    /\ \E q \in ChannelCells(1) : norm_png[q] # decoded[q]
    /\ \E q \in ChannelCells(1) : rtnx_png[q] # norm_png[q]

(***************************************************************************)
(* Claims on the accesses to the histogram of minmax_histo_f32.            *)
(***************************************************************************)
\* histo_size and histo_offset of the call on the array d of n samples
HistoSizeOf(d, n) ==
    (RoundedValue(minmax_f32(d, n).max) - RoundedValue(minmax_f32(d, n).min))
        + 1
HistoOffsetOf(d, n) == RoundedValue(minmax_f32(d, n).min)

\* the cumulative histogram of the call
CumulOf(d, n) ==
    HistoCumulate(HistoFill(d, n, HistoSizeOf(d, n), HistoOffsetOf(d, n)),
                  HistoSizeOf(d, n))

\* the index the backward walk stops on, before the step back
BackwardStop(d, n, nbmax) ==
    MaxWalk(CumulOf(d, n), n, nbmax, HistoSizeOf(d, n) - 1)

\* C28: when minmax_histo_f32 returned, every sample, negative ones
\* included, was counted in a cell of index (int)(x + .5) - histo_offset
\* inside [0, histo_size), and the stored min and max are histo_offset plus
\* the indices the forward walk and the backward walk ended on, both inside
\* [0, histo_size).
C28_HistoInBounds ==
    pc = "minmax_histo_done" =>
        LET hs == HistoSizeOf(data, size)
            off == HistoOffsetOf(data, size)
            imin == MinWalk(CumulOf(data, size), hs, nb_min, 0)
            imax == MaxStep(BackwardStop(data, size, nb_max), hs)
        IN  /\ \A p \in 0 .. (size - 1) :
                  HistoIndex(data[p], off) \in 0 .. (hs - 1)
            /\ imin \in 0 .. (hs - 1)
            /\ imax \in 0 .. (hs - 1)
            /\ min = RInt(imin + off)
            /\ max = RInt(imax + off)

\* C28 witness: a call on an array with a negative sample and several
\* cells, whose backward walk ran past the first cell of the histogram.
C28_Witness ==
    /\ pc = "minmax_histo_done"
    /\ \E p \in 0 .. (size - 1) : data[p][1] < 0
    /\ HistoSizeOf(data, size) > 1
    /\ BackwardStop(data, size, nb_max) = -1
    /\ max = RInt(HistoOffsetOf(data, size))

(***************************************************************************)
(* Claims on the lifetime of the histogram.                                *)
(***************************************************************************)
\* a call of normalize_histo_f32 returned
NormalizeReturned == pc \in {"normalize_done", "normalize_twice"}

\* C22: every histogram minmax_histo_f32 allocated is released before
\* normalize_histo_f32 returns: after any number of normalisation calls no
\* histogram remains allocated.
C22_HistoReleased == NormalizeReturned => histo_allocated = 0

(***************************************************************************)
(* Claims on the lifetime of the transient resources of retinex_pde.      *)
(***************************************************************************)
\* the Laplacian temporary, the spectral buffer, the cosine tables and the
\* transform plans
Transients == {"data_tmp", "data_fft", "cosx", "cosy", "dct_fw", "dct_bw"}

\* the positions of the events of one operation on one resource
EventsAt(log, op, r) == {k \in 1 .. Len(log) : log[k] = <<op, r>>}

\* the resource is allocated once, released once, and every use of it lies
\* between the two
ConfinedLifetime(log, r) ==
    /\ Cardinality(EventsAt(log, "alloc", r)) = 1
    /\ Cardinality(EventsAt(log, "release", r)) = 1
    /\ \E a \in EventsAt(log, "alloc", r), z \in EventsAt(log, "release", r) :
          /\ a < z
          /\ EventsAt(log, "use", r) # {}
          /\ \A u \in EventsAt(log, "use", r) : a < u /\ u < z

\* C21: when retinex_pde returns, the Laplacian temporary, the spectral
\* buffer, both cosine tables and both plans have each been allocated once
\* and released exactly once in this call, and none was used after its
\* release (a plan is executed, and its buffers are used by it, before any
\* of them is freed).
C21_TransientsConfined ==
    pc = "pde_done" => \A r \in Transients : ConfinedLifetime(events, r)

\* C21 witness: a second call of retinex_pde in the same process returned,
\* after the six resources were released in this call.
C21_Witness ==
    /\ pc = "pde_done"
    /\ DOMAIN prev_cosx # {}
    /\ Len(events) = Len(LaplacianEvents) + Len(ForwardEvents)
                        + Len(PoissonEvents) + Len(BackwardEvents)
    /\ \A r \in Transients : EventsAt(events, "release", r) # {}
    /\ events[Len(events)] = <<"release", "data_fft">>

(***************************************************************************)
(* Specification SpecDivisor: the divisors of the loop of                  *)
(* retinex_poisson_dct (src/retinex_pde_lib.c:236-237) in double           *)
(* precision, for the small shapes and for rows of 10^8, 2 10^8 and        *)
(* 3 10^8 samples.  A cosine of a small angle is followed by its distance  *)
(* to 1.0, counted in units of 2^-53, the spacing of the doubles below 1.  *)
(***************************************************************************)
\* the widths the divisors are followed for
LargeSides == {100000000, 200000000, 300000000}
DivisorSides == (1 .. MaxSide) \cup LargeSides

\* the number of loop indices followed from i = 1 on
MaxFreq == 6

\* the ratios n / i above which cos(M_PI / n * i) is the double 1.0, and
\* above which it lies less than 2 units below 1.0: Pi 2^26.5 =
\* 298156826.8647... and Pi 2^26 / sqrt(1.5) = 172140924.2511..., the
\* thresholds of 1 - x^2 / 2 rounded to the nearest double, each as
\* <<whole part, thousandths>>
CosIsOneAbove == <<298156826, 865>>
CosOneBelowAbove == <<172140924, 251>>

\* n / i > bound[1] + bound[2] / 1000, on the quotient and the remainder of n by i
RatioExceeds(n, i, bound) ==
    \/ n \div i > bound[1]
    \/ n \div i = bound[1] /\ (n % i) * 1000 > bound[2] * i

\* the distance of table[i] = cos(pi_size * i) to 1.0 in units of 2^-53:
\* 0, 1, or 2 for every larger distance
CosDeficit(i, n) ==
    IF i = 0 THEN 0
    ELSE IF RatioExceeds(n, i, CosIsOneAbove) THEN 0
    ELSE IF RatioExceeds(n, i, CosOneBelowAbove) THEN 1
    ELSE 2

\* 2. - cosx[...]: 1 + d 2^-53 rounded to the doubles above 1, whose spacing
\* is 2^-52, ties to even; the result is 1 + TwoMinusCos 2^-52
TwoMinusCos(d) == IF d <= 1 THEN 0 ELSE 1

\* (2. - cosx[i % nx] - cosy[i / nx]) in units of 2^-53 (the subtraction of
\* cosy is exact); a lower bound of it when a distance is 2 or more
DoubleDivisor(w, h, i) ==
    2 * TwoMinusCos(CosDeficit(PoissonColumn(i, w), w))
        + CosDeficit(PoissonRow(i, w), h)

InitDivisor ==
    /\ pc = "divisor_loop"
    /\ nx \in DivisorSides
    /\ ny \in 1 .. MaxSide
    /\ m = PdeM(1, 1)
    /\ PipelineIdle
    /\ DivisorIdle
    /\ CacheIdle
    /\ OmpIdle

\* for (i = 1; i < nx * ny; i++) data[i] *= m2 / (2. - cosx[...] - cosy[...]);
\* one turn of the loop
DivisorTurn ==
    /\ pc = "divisor_loop"
    /\ freq + 1 < nx * ny
    /\ freq < MaxFreq
    /\ freq' = freq + 1
    /\ coef_divisor' = DoubleDivisor(nx, ny, freq + 1)
    /\ UNCHANGED <<pc, data, data_entry, solverVars, normVars, mainVars, ref,
                   prev_cosx, prev_cosy, events, histo_allocated, cacheVars,
                   ompVars>>

\* the loop is left (or no longer followed)
DivisorEnd ==
    /\ pc = "divisor_loop"
    /\ ~(freq + 1 < nx * ny /\ freq < MaxFreq)
    /\ pc' = "divisor_done"
    /\ UNCHANGED <<data, data_entry, solverVars, normVars, mainVars, ref,
                   prev_cosx, prev_cosy, events, histo_allocated, extVars>>

NextDivisor == DivisorTurn \/ DivisorEnd

SpecDivisor == InitDivisor /\ [][NextDivisor]_vars

(***************************************************************************)
(* Claims on the divisors of retinex_poisson_dct.                          *)
(***************************************************************************)
\* C27: for every nx, ny >= 1 and every index i in [1, nx * ny) the divisor
\* 2 - cosx[i mod nx] - cosy[i div nx] the loop divides by is strictly
\* positive, and for a 1 x 1 channel the loop body is never executed.
C27_DivisorPositive ==
    /\ freq >= 1 => coef_divisor > 0
    /\ (nx = 1 /\ ny = 1) => freq = 0

(***************************************************************************)
(* The cached Poisson steps: retinex_poisson_dct of                        *)
(* lmps_retinex_poisson_equation/src/retinex_pde_lib.c:161-272 ("lib") and *)
(* of .../retinex_pde.c:155-258 ("pde"), and mw4_retinex_update_dft of     *)
(* .../algo_retinex_pde.c:139-229 ("mw4").  m, u and cst are rationals,    *)
(* extended with the values a division by zero produces; a cosine and a    *)
(* divisor are numbers of Q(sqrt 2, sqrt 3), where <<0, 0, 0, 0, 0>> is    *)
(* NaN and <<1, 0, 0, 0, 0>>, <<-1, 0, 0, 0, 0>> are the infinities.  A    *)
(* coefficient is the fraction <<numerator, divisor>> of the rational it   *)
(* is computed from and of its divisor: <<n, d>> is the number n / d.      *)
(* Zero is <<0 / 1, 1>>, NaN is <<0 / 1, 0>> and the infinities are        *)
(* <<1 / 1, 0>> and <<-1 / 1, 0>>.  A table that is NULL, or freed, or     *)
(* allocated and not filled yet, is <<>>.                                  *)
(***************************************************************************)
Variants == {"lib", "pde", "mw4"}

SNaN == <<0, 0, 0, 0, 0>>
SInf(s) == <<s, 0, 0, 0, 0>>
SIsFinite(x) == x[5] # 0

CoefZero == <<RInt(0), SInt(1)>>
CoefNaN == <<RInt(0), SInt(0)>>
CoefInf(s) == <<RInt(s), SInt(0)>>

RECURSIVE FloatExponent(_, _)
\* the exponent e, from e0 on, for which 2^e / n has a mantissa of 24 bits:
\* 2^23 <= 2^e / n < 2^24
FloatExponent(n, e0) ==
    IF (2 ^ e0) \div n >= 2 ^ 23 THEN e0 ELSE FloatExponent(n, e0 + 1)

\* the conversion of 1 / n to float: the nearest number with a mantissa of
\* 24 bits, ties to even
FloatOf(x) ==
    LET n == x[2]
        e == FloatExponent(n, 23)
        q == (2 ^ e) \div n
        r == (2 ^ e) % n
        up == 2 * r > n \/ (2 * r = n /\ q % 2 = 1)
    IN  IF x[1] = 0 THEN x ELSE Rat(IF up THEN q + 1 ELSE q, 2 ^ e)

\* the parameter m inside the function: "double m" in lib, "float m" in
\* the others
ParamM(v, mm) == IF v = "lib" THEN mm ELSE FloatOf(mm)

\* s_m = m; s_m is a float in the three variants
StoredM(v, mm) == FloatOf(mm)

\* the mutant of CacheMiss: only the shape is compared
CacheMissShapeOnly(v, w, h, mm, uu, snx, sny, sm, su) == w # snx \/ h # sny

\* nx != s_nx || ny != s_ny || 0. < fabs(m - s_m), and in mw4 also
\* 0. < fabs(u - s_u)
CacheMiss(v, w, h, mm, uu, snx, sny, sm, su) ==
    \/ w # snx
    \/ h # sny
    \/ (v = "mw4" /\ uu # su)
    \/ ParamM(v, mm) # sm

\* cos((M_PI * i) / n) in lib, 2. * cos((M_PI * i) / n) in the others
CachedCos(v, i, n) ==
    IF v = "lib" THEN Cos(i, n) ELSE SMul(SInt(2), Cos(i, n))

\* a cosine table filled for the size n
CachedCosTable(v, n) == [i \in 0 .. (n - 1) |-> CachedCos(v, i, n)]

\* if (s_nx != nx) { free, malloc and fill the table }: the table after
\* the test
CachedTable(v, stored, stored_size, n) ==
    IF stored_size # n THEN CachedCosTable(v, n) ELSE stored

\* (s_nx * s_ny - 1), the divisor of cst
CstDivisor(w, h) == w * h - 1

\* cst = 2. / (s_nx * s_ny - 1) in lib, 4. / (...) in pde,
\* (2. * s_u) / (...) in mw4
Cst(v, w, h, su) ==
    FDiv(IF v = "lib" THEN RInt(2)
         ELSE IF v = "pde" THEN RInt(4)
         ELSE FMul(RInt(2), su),
         RInt(CstDivisor(w, h)))

\* (*ptr_cosi + *ptr_cosj - 2. - cst) in lib, (... - 4. - cst) in the others
CoefDivisor(v, ci, cj, cst) ==
    IF cst = FNaN THEN SNaN
    ELSE IF ~IsFinite(cst) THEN SInf(-cst[1])
    ELSE SSub(SSub(SAdd(ci, cj), IF v = "lib" THEN SInt(2) ELSE SInt(4)),
              Surd(cst))

\* m2 = s_m / 2. in lib, s_m in the others
CoefNumerator(v, sm) == IF v = "lib" THEN RDiv(sm, RInt(2)) ELSE sm

\* num / div, the division of the rational num by the divisor div
CoefQuotient(num, div) ==
    IF div = SNaN THEN CoefNaN
    ELSE IF ~SIsFinite(div) THEN CoefZero
    ELSE IF div = SInt(0) THEN
        IF num[1] = 0 THEN CoefNaN ELSE CoefInf(Sign(num[1]))
    ELSE IF num[1] = 0 THEN CoefZero
    ELSE <<num, div>>

\* x * c, the product of the rational x and of the coefficient c
CoefTimes(x, c) ==
    IF c = CoefNaN THEN CoefNaN
    ELSE IF c[2] = SInt(0) THEN
        IF x[1] = 0 THEN CoefNaN ELSE CoefInf(Sign(x[1]) * c[1][1])
    ELSE CoefQuotient(RMul(x, c[1]), c[2])

\* the table the recomputation block fills from s_m, s_u and the cosine
\* tables; in mw4, if (FLT_MIN > fabs(s_u)) *s_factor = 0.; (of the values
\* of u a call is made with, 0 alone is below FLT_MIN)
CoefTable(v, w, h, sm, su, cosi, cosj) ==
    LET cst == Cst(v, w, h, su)
        filled == [k \in Cells(w, h) |->
                      CoefQuotient(CoefNumerator(v, sm),
                                   CoefDivisor(v, cosi[k % w],
                                               cosj[k \div w], cst))]
    IN  IF v = "mw4" /\ su[1] = 0 THEN [filled EXCEPT ![0] = CoefZero]
        ELSE filled

(***************************************************************************)
(* Specification SpecCache: any sequence of calls of one of the cached     *)
(* Poisson steps in a process, each on a spectrum of ones.                 *)
(***************************************************************************)
\* the values of m a call is made with: 1 / (nx ny), as retinex_pde passes
\* it, and 1 / 3
CacheMs(w, h) == {PdeM(w, h), <<1, 3>>}

\* the values of u a call of mw4_retinex_update_dft is made with
CacheUs(v) == IF v = "mw4" THEN {RInt(0), RInt(1)} ELSE {RInt(0)}

InitCache ==
    /\ pc = "cache_idle"
    /\ variant \in Variants
    /\ nx = 1 /\ ny = 1 /\ m = PdeM(1, 1)
    /\ u_arg = RInt(0)
    /\ StaticsInitial
    /\ recomputed = FALSE
    /\ last_call = <<>>
    /\ PipelineIdle
    /\ DivisorIdle
    /\ OmpIdle

\* the function is called on a spectrum of nx * ny coefficients
CacheCall ==
    /\ pc = "cache_idle"
    /\ \E s \in Shapes(MaxSide, MaxCells) :
          /\ nx' = s[1]
          /\ ny' = s[2]
          /\ m' \in CacheMs(s[1], s[2])
          /\ data_fft' = [k \in Cells(s[1], s[2]) |-> RInt(1)]
    /\ u_arg' \in CacheUs(variant)
    /\ last_call' = IF s_nx = 0 THEN <<>> ELSE <<nx, ny, m, u_arg>>
    /\ pc' = "cache_test"
    /\ UNCHANGED <<t, data, data_tmp, data_entry, normVars, mainVars, ref,
                   prev_cosx, prev_cosy, events, histo_allocated,
                   divisorVars, variant, s_nx, s_ny, s_m, s_u, s_coef,
                   s_cosi, s_cosj, recomputed, ompVars>>

\* fprintf(stderr, "allocation error\n") of lib and pde,
\* MW4_FATAL(MW4_MSG_ALLOC_ERR) of mw4
AllocationError(v) ==
    IF v = "mw4" THEN "fatal error: allocation error, not enough memory?"
    ELSE "allocation error"

\* an allocation of the recomputation block returns NULL: the message is
\* written and abort() ends the process
CacheAbort ==
    /\ pc = "cache_test"
    /\ CacheMiss(variant, nx, ny, m, u_arg, s_nx, s_ny, s_m, s_u)
    /\ stderr' = Append(stderr, AllocationError(variant))
    /\ exit_status' = "SIGABRT"
    /\ pc' = "aborted"
    /\ UNCHANGED <<data, data_entry, solverVars, size, target_min, target_max,
                   flat_nb_min, flat_nb_max, nb_min, nb_max, min, max,
                   main_pc, nc, channel, decoded, main_data, data_rtnx,
                   norm_png, rtnx_png, ref, prev_cosx, prev_cosy, events,
                   histo_allocated, divisorVars, variant, u_arg, s_u,
                   recomputed, last_call, ompVars>>

\* s_m when an allocation fails: pde alone has stored m by then
MAtAbort(v, sm, mm) == IF v = "pde" THEN StoredM(v, mm) ELSE sm

\* s_coef (s_factor) when the allocation of a cosine table fails: mw4
\* alone has freed and reallocated it by then
CoefAtAbort(v, coef) == IF v = "mw4" THEN <<>> ELSE coef

\* the test holds and malloc(sizeof(...) * nx) of s_cosi returns NULL
CosiAllocFails ==
    /\ CacheAbort
    /\ s_nx # nx
    /\ s_cosi' = <<>>
    /\ s_m' = MAtAbort(variant, s_m, m)
    /\ s_coef' = CoefAtAbort(variant, s_coef)
    /\ UNCHANGED <<s_nx, s_ny, s_cosj>>

\* the test holds, s_cosi is ready and malloc(sizeof(...) * ny) of s_cosj
\* returns NULL
CosjAllocFails ==
    /\ CacheAbort
    /\ s_ny # ny
    /\ s_cosi' = CachedTable(variant, s_cosi, s_nx, nx)
    /\ s_nx' = nx
    /\ s_cosj' = <<>>
    /\ s_m' = MAtAbort(variant, s_m, m)
    /\ s_coef' = CoefAtAbort(variant, s_coef)
    /\ UNCHANGED s_ny

\* the test holds and malloc(sizeof(...) * nx * ny) of s_coef (s_factor)
\* returns NULL: after the cosine tables in lib and pde, before them in mw4
CoefAllocFails ==
    /\ CacheAbort
    /\ s_coef' = <<>>
    /\ s_m' = MAtAbort(variant, s_m, m)
    /\ IF variant = "mw4" THEN UNCHANGED <<s_nx, s_ny, s_cosi, s_cosj>>
       ELSE /\ s_cosi' = CachedTable(variant, s_cosi, s_nx, nx)
            /\ s_nx' = nx
            /\ s_cosj' = CachedTable(variant, s_cosj, s_ny, ny)
            /\ s_ny' = ny

\* the test holds: the block frees, allocates and fills the tables
CacheRecompute ==
    /\ pc = "cache_test"
    /\ CacheMiss(variant, nx, ny, m, u_arg, s_nx, s_ny, s_m, s_u)
    /\ s_cosi' = CachedTable(variant, s_cosi, s_nx, nx)
    /\ s_nx' = nx
    /\ s_cosj' = CachedTable(variant, s_cosj, s_ny, ny)
    /\ s_ny' = ny
    /\ s_m' = StoredM(variant, m)
    /\ s_u' = IF variant = "mw4" THEN u_arg ELSE s_u
    /\ s_coef' = CoefTable(variant, s_nx', s_ny', s_m', s_u', s_cosi', s_cosj')
    /\ recomputed' = TRUE
    /\ pc' = "cache_multiply"
    /\ UNCHANGED <<data, data_entry, solverVars, normVars, mainVars, ref,
                   prev_cosx, prev_cosy, events, histo_allocated,
                   divisorVars, variant, u_arg, last_call, ompVars>>

\* the test fails: the block is skipped
CacheReuse ==
    /\ pc = "cache_test"
    /\ ~CacheMiss(variant, nx, ny, m, u_arg, s_nx, s_ny, s_m, s_u)
    /\ recomputed' = FALSE
    /\ pc' = "cache_multiply"
    /\ UNCHANGED <<data, data_entry, solverVars, normVars, mainVars, ref,
                   prev_cosx, prev_cosy, events, histo_allocated,
                   divisorVars, variant, u_arg, s_nx, s_ny, s_m, s_u, s_coef,
                   s_cosi, s_cosj, last_call, ompVars>>

\* while (ptr_data < ptr_end) *ptr_data++ *= *ptr_coef++; return data;
CacheMultiply ==
    /\ pc = "cache_multiply"
    /\ data_fft' = [k \in Cells(nx, ny) |-> CoefTimes(data_fft[k], s_coef[k])]
    /\ pc' = "cache_idle"
    /\ UNCHANGED <<nx, ny, t, data, data_tmp, m, data_entry, normVars,
                   mainVars, ref, prev_cosx, prev_cosy, events,
                   histo_allocated, extVars>>

NextCache ==
    \/ CacheCall
    \/ CosiAllocFails
    \/ CosjAllocFails
    \/ CoefAllocFails
    \/ CacheRecompute
    \/ CacheReuse
    \/ CacheMultiply

SpecCache == InitCache /\ [][NextCache]_vars

(***************************************************************************)
(* Claims on the cached Poisson steps.                                     *)
(***************************************************************************)
\* C24: at the multiplication loop of every call, whatever calls came
\* before, the coefficient table has nx * ny entries and the cosine tables
\* nx and ny entries, and all three equal what a computation from scratch
\* for the arguments of this call gives.
C24_CacheNeverStale ==
    pc = "cache_multiply" =>
        /\ DOMAIN s_coef = Cells(nx, ny)
        /\ DOMAIN s_cosi = 0 .. (nx - 1)
        /\ DOMAIN s_cosj = 0 .. (ny - 1)
        /\ s_cosi = CachedCosTable(variant, nx)
        /\ s_cosj = CachedCosTable(variant, ny)
        /\ s_coef = CoefTable(variant, nx, ny, StoredM(variant, m),
                              IF variant = "mw4" THEN u_arg ELSE RInt(0),
                              CachedCosTable(variant, nx),
                              CachedCosTable(variant, ny))

\* the preceding call had the arguments w, h and mm
PrecededBy(w, h, mm) ==
    /\ Len(last_call) = 4
    /\ last_call[1] = w
    /\ last_call[2] = h
    /\ last_call[3] = mm

\* C24 witness: a call that differs from the preceding one by m alone
\* reached its multiplication loop after a recomputation that kept both
\* cosine tables.
C24_Witness ==
    /\ pc = "cache_multiply"
    /\ recomputed
    /\ nx * ny > 1
    /\ \E mm \in CacheMs(nx, ny) : mm # m /\ PrecededBy(nx, ny, mm)

\* C25: in the cached retinex_poisson_dct of retinex_pde_lib.c, a call
\* whose nx, ny and m equal those of the preceding call skips the
\* recomputation block and leaves the stored coefficient table as it is,
\* for every image size, those whose m = 1 / (nx ny) is not a float
\* included.
C25_ReusedWhenSame ==
    [][(pc = "cache_test" /\ variant = "lib" /\ PrecededBy(nx, ny, m))
           => (~recomputed' /\ s_coef' = s_coef)]_vars

\* C30: in the cached variants the recomputation never divides by zero,
\* whatever the shape: the divisor nx ny - 1 of cst is not 0 and the
\* divisor cos + cos - 2 - cst (- 4 - cst) of every coefficient is a nonzero
\* number, for a 1 x 1 channel too.
C30_NoZeroDivisor ==
    (pc = "cache_multiply" /\ recomputed) =>
        /\ CstDivisor(s_nx, s_ny) # 0
        /\ \A k \in Cells(s_nx, s_ny) :
              LET d == CoefDivisor(variant, s_cosi[k % s_nx],
                                   s_cosj[k \div s_nx],
                                   Cst(variant, s_nx, s_ny, s_u))
              IN  SIsFinite(d) /\ d # SInt(0)

(***************************************************************************)
(* Specification SpecOmp: mw4_retinex_pde                                  *)
(* (lmps_retinex_poisson_equation/src/algo_retinex_pde.c:265-340) run by   *)
(* several OpenMP threads, one channel each.  The three unnamed            *)
(* "#pragma omp critical" sections (lines 163, 301, 320) share one lock.   *)
(* The static variables of mw4_retinex_update_dft are shared by the        *)
(* threads.  A thread takes a step where it enters or leaves a section,    *)
(* between the statements it runs outside of the sections, inside the      *)
(* recomputation block between the release of s_factor and the filling of  *)
(* the tables, and between the fprintf and the abort() of MW4_FATAL (two   *)
(* threads can each write a line before one of them ends the process).     *)
(* Of the channel of a thread the model keeps      *)
(* whether its pointers are NULL, and the factors its multiplication loop  *)
(* used.                                                                   *)
(***************************************************************************)
\* the number of threads
NThreads == 2
Threads == 1 .. NThreads

\* the arguments <<nx, ny, u, p>> a thread calls mw4_retinex_pde with; p
\* is FALSE when data_in or data_out is NULL
OmpArgs == {<<2, 1, RInt(1), TRUE>>, <<1, 2, RInt(1), TRUE>>,
            <<3, 1, RInt(1), TRUE>>, <<2, 1, RInt(1), FALSE>>}

\* 1. / (float) (nx * ny), received as "float m"
OmpM(a) == FloatOf(PdeM(a[1], a[2]))

\* the table of factors computed for the arguments a
OmpTable(a) ==
    CoefTable("mw4", a[1], a[2], OmpM(a), a[3],
              CachedCosTable("mw4", a[1]), CachedCosTable("mw4", a[2]))

\* what a thread holds of a block that was freed or is not filled yet, and
\* the value of a read past the end of a block
Undefined == <<"undefined">>

\* the loop of nx * ny reads stays inside a filled block
ReadIsDefined(read, w, h) ==
    /\ read # Undefined
    /\ Cells(w, h) \subseteq DOMAIN read

\* the nx * ny factors a loop takes from the block: those of the block as
\* far as it reaches, undefined values past its end
FactorsUsed(block, w, h) ==
    [k \in Cells(w, h) |->
        IF block # Undefined /\ k \in DOMAIN block THEN block[k]
        ELSE Undefined]

\* the factors a multiplication loop of nx * ny reads can have used: those
\* of the block it read; when the block was freed or refilled under it, the
\* factors some call left in that memory or undefined values
ReadOutcomes(read, w, h) ==
    IF read = Undefined
    THEN {FactorsUsed(block, w, h) :
             block \in {OmpTable(a) : a \in OmpArgs} \cup {Undefined}}
    ELSE {FactorsUsed(read, w, h)}

\* the mutant of CriticalFree: a section is entered whoever is inside one
CriticalIgnored(holder) == TRUE

\* #pragma omp critical: a thread enters when no thread is inside a
\* critical section
CriticalFree(holder) == holder = 0

\* the variables no thread changes
ompFrame == <<data, data_entry, solverVars, size, target_min, target_max,
              flat_nb_min, flat_nb_max, nb_min, nb_max, min, max, main_pc,
              nc, channel, decoded, main_data, data_rtnx, norm_png,
              rtnx_png, ref, prev_cosx, prev_cosy, events, histo_allocated,
              divisorVars, variant, u_arg, s_coef, recomputed, last_call,
              thread_args>>

\* the variables a thread changes when it fails only
ompRun == <<pc, stderr, exit_status>>

\* the static variables of mw4_retinex_update_dft but s_factor
ompStatics == <<s_nx, s_ny, s_m, s_u, s_cosi, s_cosj>>

Goto(th, to) == thread_pc' = [thread_pc EXCEPT ![th] = to]

\* MW4_FATAL(MSG), first statement: fprintf(stderr, "fatal error: " MSG
\* "\n"); the thread has written its line and has not called abort() yet,
\* the other threads go on
OmpFatal(th, msg) ==
    /\ stderr' = Append(stderr, msg)
    /\ Goto(th, "fatal")
    /\ UNCHANGED <<pc, exit_status>>

\* MW4_FATAL(MW4_MSG_ALLOC_ERR), first statement
OmpFatalAlloc(th) == OmpFatal(th, AllocationError("mw4"))

\* free(s_factor): a thread in its multiplication loop now reads freed
\* memory
FactorFreed ==
    thread_factor' = [x \in Threads |->
                         IF thread_pc[x] = "multiplying" THEN Undefined
                         ELSE thread_factor[x]]

\* nx != s_nx || ny != s_ny || 0. < fabs(u - s_u) || 0. < fabs(m - s_m) for
\* the arguments of the thread
OmpMiss(th) ==
    CacheMiss("mw4", thread_args[th][1], thread_args[th][2],
              PdeM(thread_args[th][1], thread_args[th][2]),
              thread_args[th][3], s_nx, s_ny, s_m, s_u)

InitOmp ==
    /\ pc = "omp"
    /\ nx = 1 /\ ny = 1 /\ m = PdeM(1, 1)
    /\ PipelineIdle
    /\ DivisorIdle
    /\ variant = "mw4"
    /\ u_arg = RInt(0)
    /\ StaticsInitial
    /\ recomputed = FALSE
    /\ last_call = <<>>
    /\ thread_pc = [th \in Threads |-> "start"]
    /\ thread_args \in [Threads -> OmpArgs]
    /\ critical = 0
    /\ s_factor = <<>>
    /\ thread_factor = [th \in Threads |-> <<>>]

\* if (NULL == data_in || NULL == data_out) MW4_FATAL(MW4_MSG_NULL_PTR);
\* (lines 276-277)
OmpNullPointer(th) ==
    /\ thread_pc[th] = "start"
    /\ ~thread_args[th][4]
    /\ OmpFatal(th, "fatal error: a pointer is NULL and should not be so")
    /\ UNCHANGED <<ompFrame, ompStatics, s_factor, thread_factor, critical>>

\* the pointers are not NULL and the malloc of data_fft returns NULL
\* (lines 285-286)
OmpAllocFftFails(th) ==
    /\ thread_pc[th] = "start"
    /\ thread_args[th][4]
    /\ OmpFatalAlloc(th)
    /\ UNCHANGED <<ompFrame, ompStatics, s_factor, thread_factor, critical>>

\* MW4_FATAL(MSG), second statement: abort(); of a thread that has written
\* its line: the process ends, every thread with it
OmpAbort(th) ==
    /\ thread_pc[th] = "fatal"
    /\ exit_status' = "SIGABRT"
    /\ pc' = "aborted"
    /\ thread_pc' = [x \in Threads |-> "aborted"]
    /\ UNCHANGED <<ompFrame, stderr, ompStatics, s_factor, thread_factor,
                   critical>>

\* the pointers are not NULL, data_fft is allocated and
\* mw4_discrete_laplacian_threshold fills data_out (lines 276-294)
OmpLaplacian(th) ==
    /\ thread_pc[th] = "start"
    /\ thread_args[th][4]
    /\ Goto(th, "fw_call")
    /\ UNCHANGED <<ompFrame, ompRun, ompStatics, s_factor, thread_factor,
                   critical>>

\* #pragma omp critical (line 301): the thread enters the section of
\* dct_fw = fftwf_plan_r2r_2d(...)
FwEnter(th) ==
    /\ thread_pc[th] = "fw_call"
    /\ CriticalFree(critical)
    /\ critical' = th
    /\ Goto(th, "fw_plan")
    /\ UNCHANGED <<ompFrame, ompRun, ompStatics, s_factor, thread_factor>>

\* the plan is constructed (lines 302-305) and the section left
FwLeave(th) ==
    /\ thread_pc[th] = "fw_plan"
    /\ critical' = 0
    /\ Goto(th, "fw_execute")
    /\ UNCHANGED <<ompFrame, ompRun, ompStatics, s_factor, thread_factor>>

\* fftwf_execute(dct_fw); (line 306), outside of the section
FwExecute(th) ==
    /\ thread_pc[th] = "fw_execute"
    /\ Goto(th, "update_call")
    /\ UNCHANGED <<ompFrame, ompRun, ompStatics, s_factor, thread_factor,
                   critical>>

\* mw4_retinex_update_dft, #pragma omp critical (line 163): the thread
\* enters the section of the test and of the recomputation block
UpdateEnter(th) ==
    /\ thread_pc[th] = "update_call"
    /\ CriticalFree(critical)
    /\ critical' = th
    /\ Goto(th, "update_test")
    /\ UNCHANGED <<ompFrame, ompRun, ompStatics, s_factor, thread_factor>>

\* the test holds: free(s_factor); s_factor = malloc(...);
UpdateFree(th) ==
    /\ thread_pc[th] = "update_test"
    /\ OmpMiss(th)
    /\ s_factor' = <<>>
    /\ FactorFreed
    /\ Goto(th, "update_fill")
    /\ UNCHANGED <<ompFrame, ompRun, ompStatics, critical>>

\* the test holds and the malloc of s_factor returns NULL (lines 169-170);
\* the thread stays inside the section
UpdateFreeFails(th) ==
    /\ thread_pc[th] = "update_test"
    /\ OmpMiss(th)
    /\ s_factor' = <<>>
    /\ FactorFreed
    /\ OmpFatalAlloc(th)
    /\ UNCHANGED <<ompFrame, ompStatics, critical>>

\* s_factor is allocated and the malloc of s_cosi returns NULL
\* (lines 176-177)
UpdateCosiFails(th) ==
    /\ thread_pc[th] = "update_fill"
    /\ s_nx # thread_args[th][1]
    /\ s_cosi' = <<>>
    /\ OmpFatalAlloc(th)
    /\ UNCHANGED <<ompFrame, s_nx, s_ny, s_m, s_u, s_cosj, s_factor,
                   thread_factor, critical>>

\* s_cosi is ready and the malloc of s_cosj returns NULL (lines 189-190)
UpdateCosjFails(th) ==
    /\ thread_pc[th] = "update_fill"
    /\ s_ny # thread_args[th][2]
    /\ s_cosi' = CachedTable("mw4", s_cosi, s_nx, thread_args[th][1])
    /\ s_nx' = thread_args[th][1]
    /\ s_cosj' = <<>>
    /\ OmpFatalAlloc(th)
    /\ UNCHANGED <<ompFrame, s_ny, s_m, s_u, s_factor, thread_factor,
                   critical>>

\* the cosine tables, s_nx, s_ny, s_u, s_m and the factors are set for the
\* arguments of the thread (lines 172-218), and the section is left
UpdateFill(th) ==
    /\ thread_pc[th] = "update_fill"
    /\ s_cosi' = CachedTable("mw4", s_cosi, s_nx, thread_args[th][1])
    /\ s_nx' = thread_args[th][1]
    /\ s_cosj' = CachedTable("mw4", s_cosj, s_ny, thread_args[th][2])
    /\ s_ny' = thread_args[th][2]
    /\ s_u' = thread_args[th][3]
    /\ s_m' = OmpM(thread_args[th])
    /\ s_factor' = CoefTable("mw4", s_nx', s_ny', s_m', s_u', s_cosi',
                             s_cosj')
    /\ critical' = 0
    /\ Goto(th, "multiply")
    /\ UNCHANGED <<ompFrame, ompRun, thread_factor>>

\* the test fails: the block is skipped and the section left
UpdateSkip(th) ==
    /\ thread_pc[th] = "update_test"
    /\ ~OmpMiss(th)
    /\ critical' = 0
    /\ Goto(th, "multiply")
    /\ UNCHANGED <<ompFrame, ompRun, ompStatics, s_factor, thread_factor>>

\* factor_ptr = s_factor; the multiplication loop starts, outside of any
\* critical section
MultiplyBegin(th) ==
    /\ thread_pc[th] = "multiply"
    /\ thread_factor' = [thread_factor EXCEPT
                             ![th] = IF s_factor = <<>> THEN Undefined
                                     ELSE s_factor]
    /\ Goto(th, "multiplying")
    /\ UNCHANGED <<ompFrame, ompRun, ompStatics, s_factor, critical>>

\* the multiplication loop of nx * ny reads ends (lines 224-226)
MultiplyEnd(th) ==
    /\ thread_pc[th] = "multiplying"
    /\ \E used \in ReadOutcomes(thread_factor[th], thread_args[th][1],
                                 thread_args[th][2]) :
          thread_factor' = [thread_factor EXCEPT ![th] = used]
    /\ Goto(th, "bw_call")
    /\ UNCHANGED <<ompFrame, ompRun, ompStatics, s_factor, critical>>

\* a read of the loop in a freed block, or past the end of a block shorter
\* than nx * ny, faults: the process is ended by SIGSEGV
MultiplyFaults(th) ==
    /\ thread_pc[th] = "multiplying"
    /\ ~ReadIsDefined(thread_factor[th], thread_args[th][1],
                      thread_args[th][2])
    /\ exit_status' = "SIGSEGV"
    /\ pc' = "killed"
    /\ thread_pc' = [x \in Threads |-> "killed"]
    /\ UNCHANGED <<ompFrame, stderr, ompStatics, s_factor, thread_factor,
                   critical>>

\* #pragma omp critical (line 320): the thread enters the section of
\* dct_bw = fftwf_plan_r2r_2d(...)
BwEnter(th) ==
    /\ thread_pc[th] = "bw_call"
    /\ CriticalFree(critical)
    /\ critical' = th
    /\ Goto(th, "bw_plan")
    /\ UNCHANGED <<ompFrame, ompRun, ompStatics, s_factor, thread_factor>>

\* the plan is constructed (lines 321-324) and the section left
BwLeave(th) ==
    /\ thread_pc[th] = "bw_plan"
    /\ critical' = 0
    /\ Goto(th, "bw_execute")
    /\ UNCHANGED <<ompFrame, ompRun, ompStatics, s_factor, thread_factor>>

\* fftwf_execute(dct_bw); (line 325), outside of the section
BwExecute(th) ==
    /\ thread_pc[th] = "bw_execute"
    /\ Goto(th, "cleanup")
    /\ UNCHANGED <<ompFrame, ompRun, ompStatics, s_factor, thread_factor,
                   critical>>

\* fftwf_destroy_plan(dct_fw); fftwf_destroy_plan(dct_bw);
\* fftwf_free(data_fft); fftwf_cleanup(); return data_out; (lines 332-339),
\* outside of the section
Cleanup(th) ==
    /\ thread_pc[th] = "cleanup"
    /\ Goto(th, "done")
    /\ UNCHANGED <<ompFrame, ompRun, ompStatics, s_factor, thread_factor,
                   critical>>

NextOmp ==
    \E th \in Threads :
        \/ OmpNullPointer(th)
        \/ OmpAllocFftFails(th)
        \/ OmpAbort(th)
        \/ OmpLaplacian(th)
        \/ FwEnter(th)
        \/ FwLeave(th)
        \/ FwExecute(th)
        \/ UpdateEnter(th)
        \/ UpdateFree(th)
        \/ UpdateFreeFails(th)
        \/ UpdateCosiFails(th)
        \/ UpdateCosjFails(th)
        \/ UpdateFill(th)
        \/ UpdateSkip(th)
        \/ MultiplyBegin(th)
        \/ MultiplyEnd(th)
        \/ MultiplyFaults(th)
        \/ BwEnter(th)
        \/ BwLeave(th)
        \/ BwExecute(th)
        \/ Cleanup(th)

SpecOmp == InitOmp /\ [][NextOmp]_vars

(***************************************************************************)
(* Claims on the OpenMP threads of mw4_retinex_pde.                        *)
(***************************************************************************)
\* the thread is inside a call that constructs a plan
InPlanConstruction(th) == thread_pc[th] \in {"fw_plan", "bw_plan"}

\* C23: at most one thread at a time is inside the construction of a
\* forward or of a backward plan, however many threads run
\* mw4_retinex_pde.
C23_PlansSerialised ==
    \A a \in Threads, b \in Threads :
        (InPlanConstruction(a) /\ InPlanConstruction(b)) => a = b

\* C23 witness: a thread constructs its backward plan while another one,
\* which has not constructed its forward plan yet, is kept out.
C23_Witness ==
    \E a \in Threads, b \in Threads :
        /\ thread_pc[a] = "bw_plan"
        /\ thread_pc[b] = "fw_call"
        /\ critical = a

\* the thread is inside the block that frees, reallocates and refills the
\* shared tables
InRefill(th) == thread_pc[th] = "update_fill"

\* the thread left its multiplication loop
Multiplied(th) ==
    thread_pc[th] \in {"bw_call", "bw_plan", "bw_execute", "cleanup", "done"}

\* C29: no thread is in its multiplication loop while another thread is
\* inside the block that frees, reallocates and refills s_factor, and every
\* thread multiplied by the table computed for its own arguments.
C29_NoReadDuringRefill ==
    \A a \in Threads :
        /\ \A b \in Threads :
              ~(thread_pc[a] = "multiplying" /\ InRefill(b))
        /\ Multiplied(a) => thread_factor[a] = OmpTable(thread_args[a])

====
